---------------------------- MODULE Spec2Model ----------------------------
(***************************************************************************)
(* A model of the chemistry files importer: the format dispatcher          *)
(* (files-importer/src/lib.rs), the five recognizers (`test`) and the      *)
(* parsers (`parse`) of XYZ, Gaussian Cube, UNEX 1.x/2.x, Cfour and MDL    *)
(* Mol V2000.                                                              *)
(*                                                                         *)
(* Text representation.  A line is the record [ws, toks]: `toks` is what   *)
(* split_whitespace() yields for the line and `ws` says whether the line   *)
(* starts with whitespace.  Runs of whitespace between tokens are not      *)
(* distinguished.  A token is a string; what a token parses to (usize,     *)
(* i32, f64, element symbol, regex match) is given by tables over the      *)
(* tokens the model uses.  A file content is a sequence of lines, as       *)
(* str::lines() / BufRead::lines() yield them.                             *)
(***************************************************************************)
EXTENDS Integers, Sequences, FiniteSets, TLC

VARIABLES
    disk,       \* the file at file_path, as it is on disk right now
    content,    \* load: the String read by read_to_string (<<>> before)
    idx,        \* load: 1-based position in PARSERS of the loop
    pc,         \* load: "start" | "test" | "parse" | "done" | "idle"
    errors,     \* load: the Vec<String> errors
    result,     \* load: the value returned (NoResult until it returns)
    log,        \* history: every recognizer / parser invocation of the load
    changes,    \* how many times the file was changed on disk during load
    opens,      \* history: how many times load has opened the file
    firstRead,  \* history: the lines the initial read returned
    fileA,      \* recognizers: a first file on disk
    fileB,      \* recognizers: a second file on disk
    tfmt,       \* recognizers: which test function was called (0: none yet)
    verdictA,   \* recognizers: what it returned for fileA
    verdictB,   \* recognizers: what it returned for fileB
    verdictAgain, \* recognizers: what a second call returned for fileA
    pfmt,       \* parsers: which parse function is applied
    pinput,     \* parsers: the content handed to it
    pout,       \* parsers: what it returned (NoResult before the call)
    pblocks,    \* parsers: history, the XYZ blocks the content was built from
    pgen,       \* parsers: history, what else the content was built from
    payload,    \* round trip: the AtomicCoordinates a parser constructed
    wire,       \* round trip: its serialized form (NoResult before to_vec)
    back,       \* round trip: what the consumer's from_slice returned
    threads,    \* concurrent parse calls: each thread's call and locals
    ncalls,     \* concurrent parse calls: how many calls were started
    overflow_checks  \* the build: TRUE when integer overflow panics (the
                \* dev profile), FALSE when it wraps (the release profile)

vars == <<disk, content, idx, pc, errors, result, log, changes, opens, firstRead,
          fileA, fileB, tfmt, verdictA, verdictB, verdictAgain,
          pfmt, pinput, pout, pblocks, pgen, payload, wire, back, threads, ncalls,
          overflow_checks>>

loadVars == <<disk, content, idx, pc, errors, result, log, changes, opens, firstRead>>
testVars == <<fileA, fileB, tfmt, verdictA, verdictB, verdictAgain>>
parseVars == <<pfmt, pinput, pout, pblocks, pgen>>
tripVars == <<payload, wire, back>>
callVars == <<threads, ncalls>>
pureVars == <<tripVars, callVars>>

---------------------------------------------------------------------------
(* Result<T, String> and Option<T>. *)

Ok(v) == [ok |-> TRUE, v |-> v]
Err(e) == [ok |-> FALSE, e |-> e]
Some(v) == [some |-> TRUE, v |-> v]
None == [some |-> FALSE]
NoResult == [ok |-> FALSE, e |-> "<not returned>"]

Min(a, b) == IF a < b THEN a ELSE b

Take(s, n) == SubSeq(s, 1, Min(n, Len(s)))

---------------------------------------------------------------------------
(* f64 values.  A finite value is n hundredths; `bohr` says that it was   *)
(* multiplied by BOHR2ANGSTROM (0.529177210903), which is kept symbolic.  *)

FV(n) == [kind |-> "fin", n |-> n, bohr |-> FALSE]
NaN == [kind |-> "nan", n |-> 0, bohr |-> FALSE]
Inf == [kind |-> "inf", n |-> 0, bohr |-> FALSE]

MulBohr(v) == IF v.kind = "fin" /\ v.n # 0 THEN [v EXCEPT !.bohr = TRUE] ELSE v

---------------------------------------------------------------------------
(* Tokens and what they parse to. *)

UsizeTable ==
    ("0" :> 0) @@ ("1" :> 1) @@ ("2" :> 2) @@ ("3" :> 3) @@ ("6" :> 6)
    @@ ("8" :> 8) @@ ("+2" :> 2)

NegTable == ("-1" :> -1) @@ ("-2" :> -2)

F64Table ==
    ("0" :> FV(0)) @@ ("1" :> FV(100)) @@ ("2" :> FV(200)) @@ ("3" :> FV(300))
    @@ ("6" :> FV(600)) @@ ("8" :> FV(800)) @@ ("+2" :> FV(200))
    @@ ("-1" :> FV(-100)) @@ ("-2" :> FV(-200)) @@ ("0.0" :> FV(0))
    @@ ("0.96" :> FV(96)) @@ ("1.0" :> FV(100)) @@ ("0.5" :> FV(50))
    @@ ("-1.5" :> FV(-150)) @@ ("1e2" :> FV(10000)) @@ ("5." :> FV(500))
    @@ ("15.99" :> FV(1599)) @@ ("1.00" :> FV(100))
    @@ ("nan" :> NaN) @@ ("inf" :> Inf)

\* str::parse::<usize>(): decimal digits with an optional leading '+'.
ParseUsize(t) == IF t \in DOMAIN UsizeTable THEN Some(UsizeTable[t]) ELSE None

\* str::parse::<i32>(): an optional sign and decimal digits.
ParseI32(t) ==
    IF t \in DOMAIN UsizeTable THEN Some(UsizeTable[t])
    ELSE IF t \in DOMAIN NegTable THEN Some(NegTable[t])
    ELSE None

\* str::parse::<f64>(): decimal and exponent forms, "nan", "inf".
ParseF64(t) == IF t \in DOMAIN F64Table THEN Some(F64Table[t]) ELSE None

\* The regex group ([A-Z][a-z]?|[0-9]+) of the XYZ card validator.
ReSymbolOrNumber(t) ==
    t \in {"H", "C", "N", "O", "X", "He", "Zz", "0", "1", "2", "3", "6", "8"}

\* The regex group [-+]?[0-9]*\.?[0-9]+([eE][-+]?[0-9]+)? of the validator.
ReNumber(t) ==
    t \in {"0", "1", "2", "3", "6", "8", "+2", "-1", "-2", "0.0", "0.96",
           "1.0", "0.5", "-1.5", "1e2"}

\* The periodic table collaborator (shared_lib::periodic_table).
ElementTable == ("H" :> 1) @@ ("He" :> 2) @@ ("C" :> 6) @@ ("N" :> 7) @@ ("O" :> 8)

get_element_by_symbol(t) ==
    IF t \in DOMAIN ElementTable THEN Some(ElementTable[t]) ELSE None

\* A token that contains the substring "--".
HasDashes(t) == t \in {"--", "----", "-----"}

---------------------------------------------------------------------------
(* Lines. *)

L(toks) == [ws |-> FALSE, toks |-> toks]
IndL(toks) == [ws |-> TRUE, toks |-> toks]

RECURSIVE JoinToks(_)
JoinToks(toks) ==
    IF toks = <<>> THEN ""
    ELSE IF Len(toks) = 1 THEN toks[1]
    ELSE toks[1] \o " " \o JoinToks(Tail(toks))

\* str::trim() followed by to_string(): the text without the whitespace
\* around it.
TrimToString(line) == JoinToks(line.toks)

\* line.contains(phrase), for a phrase of whole tokens.
ContainsPhrase(line, phrase) ==
    \E i \in 1..Len(line.toks) :
        /\ i + Len(phrase) - 1 <= Len(line.toks)
        /\ SubSeq(line.toks, i, i + Len(phrase) - 1) = phrase

\* line.contains("--")
ContainsDashes(line) == \E i \in 1..Len(line.toks) : HasDashes(line.toks[i])

\* str::parse() of a whole trimmed line: one token, and it parses.
ParseLineUsize(line) ==
    IF Len(line.toks) = 1 THEN ParseUsize(line.toks[1]) ELSE None

---------------------------------------------------------------------------
(* Files on disk.  `bad` = k > 0: line k is the first that holds bytes    *)
(* that are not valid UTF-8.                                               *)

File(lines) == [exists |-> TRUE, bad |-> 0, lines |-> lines]
Missing == [exists |-> FALSE, bad |-> 0, lines |-> <<>>]
Binary(lines, k) == [exists |-> TRUE, bad |-> k, lines |-> lines]

NoSuchFile == "No such file or directory (os error 2)"
NotUtf8 == "stream did not contain valid UTF-8"

\* A reader that takes one line more than it was asked for.
ReadLinesOneMore(file, n) ==
    IF ~file.exists THEN Err([at |-> "open", e |-> NoSuchFile])
    ELSE IF file.bad > 0 /\ file.bad <= n + 1 THEN Err([at |-> "read", e |-> NotUtf8])
    ELSE Ok(Take(file.lines, n + 1))

\* A reader that fails when the file has fewer lines than it was asked for.
ReadLinesExact(file, n) ==
    IF ~file.exists THEN Err([at |-> "open", e |-> NoSuchFile])
    ELSE IF file.bad > 0 /\ file.bad <= n THEN Err([at |-> "read", e |-> NotUtf8])
    ELSE IF Len(file.lines) < n THEN Err([at |-> "read", e |-> "unexpected end of file"])
    ELSE Ok(Take(file.lines, n))

\* File::open + BufReader::lines().take(n).collect::<Result<Vec<_>, _>>()
ReadLines(file, n) ==
    IF ~file.exists THEN Err([at |-> "open", e |-> NoSuchFile])
    ELSE IF file.bad > 0 /\ file.bad <= n THEN Err([at |-> "read", e |-> NotUtf8])
    ELSE Ok(Take(file.lines, n))

\* std::fs::read_to_string
read_to_string(file) ==
    IF ~file.exists THEN Err(NoSuchFile)
    ELSE IF file.bad > 0 THEN Err(NotUtf8)
    ELSE Ok(file.lines)

---------------------------------------------------------------------------
(* The recognizers: test(file_path) -> Result<bool, String>.  Each opens  *)
(* the file at file_path and reads at most its MAX_VALIDATION_LINES first *)
(* lines.                                                                  *)

XYZ_MAX_VALIDATION_LINES == 10
\* if lines.is_empty() { return Ok(false); }
XYZ_LINES_NEEDED == 1
CUBE_MAX_VALIDATION_LINES == 10
\* if lines.len() < 6 { return Ok(false); }
CUBE_LINES_NEEDED == 6
UNEX_MAX_VALIDATION_LINES == 1
\* The first line holds the version.
UNEX_LINES_NEEDED == 1
CFOUR_MAX_VALIDATION_LINES == 20
\* lines.iter().skip(1): the signature is looked for from the second line on.
CFOUR_LINES_NEEDED == 2
MDL_MAX_VALIDATION_LINES == 4
\* if lines.len() < 4 { return Ok(false); }
MDL_LINES_NEEDED == 4

\* card_validator.is_match(line.trim())
CardMatches(line) ==
    /\ Len(line.toks) = 4
    /\ ReSymbolOrNumber(line.toks[1])
    /\ \A j \in 2..4 : ReNumber(line.toks[j])

\* The verdict of xyz::test on the lines it has read.
XyzVerdict(lines) ==
    IF lines = <<>> THEN FALSE
    ELSE LET numat == ParseLineUsize(lines[1]) IN
         IF ~numat.some THEN FALSE
         ELSE IF numat.v = 0 THEN FALSE
         ELSE LET cards_to_check == Min(numat.v, XYZ_MAX_VALIDATION_LINES - 2) IN
              \A i \in 0..(cards_to_check - 1) :
                  i + 3 <= Len(lines) => CardMatches(lines[i + 3])

xyz_test(file) ==
    LET r == ReadLines(file, XYZ_MAX_VALIDATION_LINES) IN
    IF ~r.ok THEN Err(r.e.e) ELSE Ok(XyzVerdict(r.v))

\* "N v1 v2 v3": at least 4 tokens, an i32 and three f64.
CubeHeadOk(line) ==
    /\ Len(line.toks) >= 4
    /\ ParseI32(line.toks[1]).some
    /\ \A j \in 2..4 : ParseF64(line.toks[j]).some

CubeVerdict(lines) ==
    IF Len(lines) < 6 THEN FALSE
    ELSE CubeHeadOk(lines[3]) /\ \A i \in 4..6 : CubeHeadOk(lines[i])

cube_test(file) ==
    LET r == ReadLines(file, CUBE_MAX_VALIDATION_LINES) IN
    IF ~r.ok
    THEN Err((IF r.e.at = "open" THEN "Failed to open file: "
              ELSE "Failed to read file: ") \o r.e.e)
    ELSE Ok(CubeVerdict(r.v))

\* A panic (the call does not return): a result apart from Ok and Err.
PanicCapacity == "<panic: capacity overflow>"
PanicMulOverflow == "<panic: attempt to multiply with overflow>"
PanicAddOverflow == "<panic: attempt to add with overflow>"
Panics == {PanicCapacity, PanicMulOverflow, PanicAddOverflow}
IsPanic(r) == ~r.ok /\ r.e \in Panics

\* Tokens that start with "UNEX".
StartsWithUNEX(t) == t \in {"UNEX", "UNEXlog"}

\* Tokens the version regex ^([0-9]+)\.([0-9]+)-([0-9]+)-([a-z0-9]+)$
\* matches, with the three captures parsed as i32.
VersionTable ==
    ("1.12-3-abc" :> <<1, 12, 3>>) @@ ("2.0-0-x" :> <<2, 0, 0>>)
    @@ ("1.99-9999-b" :> <<1, 99, 9999>>) @@ ("3.1-4-x" :> <<3, 1, 4>>)
    @@ ("2147.48-3647-x" :> <<2147, 48, 3647>>)
    @@ ("2147.48-3648-x" :> <<2147, 48, 3648>>)
    @@ ("3000.0-0-x" :> <<3000, 0, 0>>) @@ ("4295.0-0-x" :> <<4295, 0, 0>>)
    @@ ("1.100-0-x" :> <<1, 100, 0>>)

\* 1_000_000 * major + 10_000 * minor + patch, held as a number of
\* millions and a rest below a million, so that values beyond i32::MAX
\* (2147 millions and 483647) can be told apart.
FoldMillions(c) == c[1] + (10000 * c[2] + c[3]) \div 1000000
FoldRest(c) == (10000 * c[2] + c[3]) % 1000000

\* The sum does not fit in an i32.
FoldOverflows(c) ==
    FoldMillions(c) > 2147 \/ (FoldMillions(c) = 2147 /\ FoldRest(c) > 483647)

\* The operation of the fold that overflows first.
FoldPanic(c) ==
    IF c[1] > 2147 \/ c[2] > 214748 THEN PanicMulOverflow ELSE PanicAddOverflow

\* The wrapped sum of a build without overflow checks: the sum less 2^32
\* (4294 millions and 967296), for sums below 2^32 + 2^31.
FoldWrapped(c) == (FoldMillions(c) - 4294) * 1000000 + (FoldRest(c) - 967296)

\* The outcome of get_format_version that is a panic.
VersionPanic(msg) == [some |-> FALSE, panic |-> msg]

get_format_version(line) ==
    IF line.toks # <<>> /\ StartsWithUNEX(line.toks[1])
       /\ Len(line.toks) >= 2 /\ line.toks[2] \in DOMAIN VersionTable
    THEN LET c == VersionTable[line.toks[2]] IN
         IF ~FoldOverflows(c) THEN Some(1000000 * c[1] + 10000 * c[2] + c[3])
         ELSE IF overflow_checks THEN VersionPanic(FoldPanic(c))
         ELSE Some(FoldWrapped(c))
    ELSE None

\* if let Some(line) = lines.first() { get_format_version(line).is_some() }
UnexVerdict(lines) ==
    IF lines = <<>> THEN Ok(FALSE)
    ELSE LET version == get_format_version(lines[1]) IN
         IF version.some \/ version = None THEN Ok(version.some)
         ELSE Err(version.panic)

unex_test(file) ==
    LET r == ReadLines(file, UNEX_MAX_VALIDATION_LINES) IN
    IF ~r.ok
    THEN Err((IF r.e.at = "open" THEN "Failed to open file: "
              ELSE "Failed to read file: ") \o r.e.e)
    ELSE UnexVerdict(r.v)

CFOUR_SIGNATURE == <<"<<<", "CCCCCC", "CCCCCC", "|||", "CCCCCC", "CCCCCC", ">>>">>

\* lines.iter().skip(1): any line but the first contains the signature.
CfourVerdict(lines) ==
    \E i \in 2..Len(lines) : ContainsPhrase(lines[i], CFOUR_SIGNATURE)

cfour_test(file) ==
    LET r == ReadLines(file, CFOUR_MAX_VALIDATION_LINES) IN
    IF ~r.ok THEN Err(r.e.e) ELSE Ok(CfourVerdict(r.v))

\* Tokens that start with "V2000".
StartsWithV2000(t) == t \in {"V2000", "V2000x"}

\* line.contains(" V2000"): a token that starts with V2000 and follows
\* whitespace.
ContainsSpaceV2000(line) ==
    \E i \in 1..Len(line.toks) : StartsWithV2000(line.toks[i]) /\ (i > 1 \/ line.ws)

MdlVerdict(lines) ==
    IF Len(lines) < 4 THEN FALSE ELSE ContainsSpaceV2000(lines[4])

mdlmol2000_test(file) ==
    LET r == ReadLines(file, MDL_MAX_VALIDATION_LINES) IN
    IF ~r.ok THEN Err(r.e.e) ELSE Ok(MdlVerdict(r.v))

---------------------------------------------------------------------------
(* The tree model (shared_lib/src/types.rs) and serde_json::to_vec of the *)
(* payloads.  A payload's bytes are modelled by the JSON value they       *)
(* encode: serde_json writes a non-finite f64 as null.                    *)

TYPE_MOLECULE == "mircmd:chemistry:molecule"
TYPE_COORDS == "mircmd:chemistry:atomic_coordinates"
TYPE_CUBE == "mircmd:chemistry:volume_cube"
TYPE_UNEX == "mircmd:chemistry:unex"

Node(name, type, data, children) ==
    [name |-> name, type |-> type, data |-> data, children |-> children]

JsonNull == [kind |-> "null", n |-> 0, bohr |-> FALSE]
JsonF64(v) == IF v.kind = "fin" THEN v ELSE JsonNull
JsonF64s(vs) == [i \in 1..Len(vs) |-> JsonF64(vs[i])]

EmptyData == [json |-> "empty"]

\* serde_json::to_vec(&AtomicCoordinates { atomic_num, x, y, z })
SerCoords(atomic_num, x, y, z) ==
    [json |-> "AtomicCoordinates", atomic_num |-> atomic_num,
     x |-> JsonF64s(x), y |-> JsonF64s(y), z |-> JsonF64s(z)]

\* serde_json::to_vec(&Molecule { n_atoms, atomic_num, charge, name })
SerMolecule(n_atoms, atomic_num, charge, name) ==
    [json |-> "Molecule", n_atoms |-> n_atoms, atomic_num |-> atomic_num,
     charge |-> charge, name |-> name]


\* A parser's loop state leaves the loop with an error.
Fail(st, msg) == [st EXCEPT !.ret = "err", !.err = msg]

---------------------------------------------------------------------------
(* xyz::parse *)

XyzInitState(file_name) ==
    [state |-> "Init", num_atoms |-> 0, num_read_cards |-> 0, title |-> "",
     atomic_num |-> <<>>, x |-> <<>>, y |-> <<>>, z |-> <<>>,
     result |-> Node(file_name, TYPE_MOLECULE,
                     SerMolecule(0, <<>>, 0, file_name), <<>>),
     ret |-> "running", err |-> ""]

\* ParserState::Init
XyzInit(st, line, line_number) ==
    IF line.toks = <<>> THEN [st EXCEPT !.ret = "break"]
    ELSE LET n == ParseLineUsize(line) IN
         IF ~n.some
         THEN Fail(st, "Invalid line " \o ToString(line_number + 1)
                                      \o ", expected number of atoms.")
         ELSE IF n.v = 0
         THEN Fail(st, "Invalid number of atoms 0 at line "
                                      \o ToString(line_number + 1) \o ".")
         ELSE [st EXCEPT !.num_atoms = n.v, !.state = "Comment"]

\* ParserState::Comment
XyzComment(st, line, line_number) ==
    [st EXCEPT !.title = IF TrimToString(line) = ""
                         THEN "Set@line=" \o ToString(line_number)
                         ELSE TrimToString(line),
               !.state = "Cards", !.num_read_cards = 0,
               !.atomic_num = <<>>, !.x = <<>>, !.y = <<>>, !.z = <<>>]

\* A card whose z coordinate is not pushed.
XyzPushCardNoZ(st, atomic_num, x, y, z) ==
    [st EXCEPT !.num_read_cards = @ + 1,
               !.atomic_num = Append(@, atomic_num),
               !.x = Append(@, x), !.y = Append(@, y)]

\* The four pushes of a card.
XyzPushCard(st, atomic_num, x, y, z) ==
    [st EXCEPT !.num_read_cards = @ + 1,
               !.atomic_num = Append(@, atomic_num),
               !.x = Append(@, x), !.y = Append(@, y), !.z = Append(@, z)]

\* A block that replaces the children before it.
XyzEmitKeepLast(st, file_name) ==
    [st EXCEPT
        !.result = [@ EXCEPT
            !.children = <<Node(st.title, TYPE_COORDS,
                                SerCoords(st.atomic_num, st.x, st.y, st.z), <<>>)>>,
            !.data = SerMolecule(st.num_atoms, st.atomic_num, 0, file_name)],
        !.state = "Init"]

\* The block is complete: one atomic_coordinates child, the molecule data
\* updated, back to Init.
XyzEmit(st, file_name) ==
    [st EXCEPT
        !.result = [@ EXCEPT
            !.children = Append(@, Node(st.title, TYPE_COORDS,
                                        SerCoords(st.atomic_num, st.x, st.y, st.z),
                                        <<>>)),
            !.data = SerMolecule(st.num_atoms, st.atomic_num, 0, file_name)],
        !.state = "Init"]

\* ParserState::Cards
XyzCards(st, line, line_number, file_name) ==
    LET items == line.toks
        where == ToString(line_number + 1) \o "."
    IN
    IF Len(items) < 4
    THEN Fail(st, "Invalid atom card at line " \o where)
    ELSE LET num == ParseI32(items[1])
             el == get_element_by_symbol(items[1])
             cx == ParseF64(items[2])
             cy == ParseF64(items[3])
             cz == ParseF64(items[4])
         IN
         IF ~num.some /\ ~el.some
         THEN Fail(st, "Invalid atom at line " \o where)
         ELSE IF ~cx.some \/ ~cy.some \/ ~cz.some
         THEN Fail(st, "Invalid coordinate value(s) at line " \o where)
         ELSE LET st2 == XyzPushCard(st, IF num.some THEN num.v ELSE el.v,
                                     cx.v, cy.v, cz.v)
              IN
              IF st2.num_read_cards = st2.num_atoms
              THEN XyzEmit(st2, file_name) ELSE st2

\* One iteration of the loop over content.lines().enumerate().
XyzStep(st, line, line_number, file_name) ==
    CASE st.state = "Init" -> XyzInit(st, line, line_number)
      [] st.state = "Comment" -> XyzComment(st, line, line_number)
      [] st.state = "Cards" -> XyzCards(st, line, line_number, file_name)

RECURSIVE XyzLoop(_, _, _, _)
XyzLoop(st, lines, i, file_name) ==
    IF i > Len(lines) \/ st.ret # "running" THEN st
    ELSE XyzLoop(XyzStep(st, lines[i], i - 1, file_name), lines, i + 1, file_name)

xyz_parse(lines, file_name) ==
    LET st == XyzLoop(XyzInitState(file_name), lines, 1, file_name) IN
    IF st.ret = "err" THEN Err(st.err) ELSE Ok(st.result)

---------------------------------------------------------------------------
(* mdlmol2000::parse *)

MdlInitState(file_name) ==
    [state |-> "Init", num_atoms |-> 0, num_read_at_cards |-> 0, title |-> "",
     atomic_num |-> <<>>, x |-> <<>>, y |-> <<>>, z |-> <<>>,
     result |-> Node(file_name, TYPE_MOLECULE,
                     SerMolecule(0, <<>>, 0, file_name), <<>>),
     ret |-> "running", err |-> ""]

\* ParserState::Init
MdlInit(st, line, line_number) ==
    [st EXCEPT !.title = IF @ = "" THEN TrimToString(line) ELSE @,
               !.state = IF line_number = 2 THEN "Control" ELSE @]

\* ParserState::Control
MdlControl(st, line, line_number) ==
    LET items == line.toks
        where == ToString(line_number + 1)
        atoms == "Invalid control line " \o where \o ", expected number of atoms."
        bonds == "Invalid control line " \o where \o ", expected number of bonds."
    IN
    IF items = <<>> THEN Fail(st, atoms)
    ELSE IF ~ParseUsize(items[1]).some THEN Fail(st, atoms)
    ELSE IF Len(items) < 2 THEN Fail(st, bonds)
    ELSE IF ~ParseI32(items[2]).some THEN Fail(st, bonds)
    ELSE IF ParseUsize(items[1]).v = 0
    THEN Fail(st, "Invalid number of atoms 0 defined in line "
                                 \o where \o ".")
    ELSE IF ParseI32(items[2]).v < 0
    THEN Fail(st, "Invalid number of bonds "
                                 \o ToString(ParseI32(items[2]).v)
                                 \o " defined in line " \o where \o ".")
    ELSE [st EXCEPT !.num_atoms = ParseUsize(items[1]).v,
                    !.num_read_at_cards = 0,
                    !.atomic_num = <<>>, !.x = <<>>, !.y = <<>>, !.z = <<>>,
                    !.state = "Atom"]

\* The four pushes of an atom line.
MdlPushAtom(st, atomic_num, x, y, z) ==
    [st EXCEPT !.num_read_at_cards = @ + 1,
               !.atomic_num = Append(@, atomic_num),
               !.x = Append(@, x), !.y = Append(@, y), !.z = Append(@, z)]

\* All atoms are read: the one atomic_coordinates child, and break.
MdlEmit(st, file_name) ==
    LET title == IF st.title = "" THEN file_name ELSE st.title IN
    [st EXCEPT
        !.title = title,
        !.result = [@ EXCEPT
            !.children = Append(@, Node(title, TYPE_COORDS,
                                        SerCoords(st.atomic_num, st.x, st.y, st.z),
                                        <<>>))],
        !.ret = "break"]

\* ParserState::Atom
MdlAtom(st, line, line_number, file_name) ==
    LET items == line.toks
        where == ToString(line_number + 1) \o "."
    IN
    IF Len(items) < 4
    THEN Fail(st, "Invalid atom coordinate value(s) at line " \o where)
    ELSE LET el == get_element_by_symbol(items[4])
             cx == ParseF64(items[1])
             cy == ParseF64(items[2])
             cz == ParseF64(items[3])
         IN
         IF ~el.some
         THEN Fail(st, "Invalid atom symbol at line " \o where)
         ELSE IF ~cx.some \/ ~cy.some \/ ~cz.some
         THEN Fail(st, "Invalid atom coordinate value(s) at line "
                                      \o where)
         ELSE LET st2 == MdlPushAtom(st, el.v, cx.v, cy.v, cz.v) IN
              IF st2.num_read_at_cards = st2.num_atoms
              THEN MdlEmit(st2, file_name) ELSE st2

MdlStep(st, line, line_number, file_name) ==
    CASE st.state = "Init" -> MdlInit(st, line, line_number)
      [] st.state = "Control" -> MdlControl(st, line, line_number)
      [] st.state = "Atom" -> MdlAtom(st, line, line_number, file_name)

RECURSIVE MdlLoop(_, _, _, _)
MdlLoop(st, lines, i, file_name) ==
    IF i > Len(lines) \/ st.ret # "running" THEN st
    ELSE MdlLoop(MdlStep(st, lines[i], i - 1, file_name), lines, i + 1, file_name)

mdlmol2000_parse(lines, file_name) ==
    LET st == MdlLoop(MdlInitState(file_name), lines, 1, file_name) IN
    IF st.ret = "err" THEN Err(st.err) ELSE Ok(st.result)

---------------------------------------------------------------------------
(* cfour::parse *)

CFOUR_MARKER == <<"Z-matrix", "Atomic", "Coordinates", "(in", "bohr)">>

NoRows == [atomic_num |-> <<>>, x |-> <<>>, y |-> <<>>, z |-> <<>>]

\* parse::<f64>().unwrap_or(0.0) * BOHR2ANGSTROM
CfourCoord(t) == MulBohr(IF ParseF64(t).some THEN ParseF64(t).v ELSE FV(0))

\* One row of the table: nothing unless it has 5 tokens, else four pushes.
CfourPushRow(acc, items) ==
    IF Len(items) >= 5
    THEN [atomic_num |-> Append(acc.atomic_num,
                                IF items[2] = "0" THEN -1
                                ELSE IF ParseI32(items[2]).some
                                THEN ParseI32(items[2]).v ELSE -1),
          x |-> Append(acc.x, CfourCoord(items[3])),
          y |-> Append(acc.y, CfourCoord(items[4])),
          z |-> Append(acc.z, CfourCoord(items[5]))]
    ELSE acc

\* for block_line in lines.by_ref(): up to and including the "--" line.
RECURSIVE CfourRows(_, _, _)
CfourRows(acc, lines, j) ==
    IF j > Len(lines) THEN [rows |-> acc, next |-> j]
    ELSE IF ContainsDashes(lines[j]) THEN [rows |-> acc, next |-> j + 1]
    ELSE CfourRows(CfourPushRow(acc, lines[j].toks), lines, j + 1)

\* A parser whose counter is a static of the process: a call starts with
\* the count that the calls of the other threads have reached.
CfourLocalsStatic(file_name) ==
    LET counts == {threads[t].loc.cart_set_number :
                     t \in {u \in DOMAIN threads :
                               threads[u].phase # "idle" /\ threads[u].fmt = 4}}
    IN [res |-> Node(file_name, TYPE_MOLECULE, SerMolecule(0, <<>>, 0, file_name), <<>>),
        cart_set_number |-> IF counts = {} THEN 0
                            ELSE CHOOSE c \in counts : \A d \in counts : d <= c,
        i |-> 1]

\* The locals of a call at its start: let mut result = Node { .. };
\* let mut cart_set_number = 0; and the position in content.lines().
CfourLocals(file_name) ==
    [res |-> Node(file_name, TYPE_MOLECULE, SerMolecule(0, <<>>, 0, file_name), <<>>),
     cart_set_number |-> 0, i |-> 1]

\* An iteration that reads the table from a copy of the iterator: after a
\* block the scan goes on with the line after the marker line.
CfourStepRescan(loc, lines) ==
    IF ContainsPhrase(lines[loc.i], CFOUR_MARKER)
    THEN LET b == CfourRows(NoRows, lines, loc.i + 3)
             node == Node("Set#" \o ToString(loc.cart_set_number + 1), TYPE_COORDS,
                          SerCoords(b.rows.atomic_num, b.rows.x, b.rows.y, b.rows.z),
                          <<>>)
         IN [res |-> [loc.res EXCEPT !.children = Append(@, node)],
             cart_set_number |-> loc.cart_set_number + 1, i |-> loc.i + 1]
    ELSE [loc EXCEPT !.i = @ + 1]

\* One iteration of `while let Some(line) = lines.next()` on the locals.
CfourStep(loc, lines) ==
    IF ContainsPhrase(lines[loc.i], CFOUR_MARKER)
    THEN LET b == CfourRows(NoRows, lines, loc.i + 3)
             node == Node("Set#" \o ToString(loc.cart_set_number + 1), TYPE_COORDS,
                          SerCoords(b.rows.atomic_num, b.rows.x, b.rows.y, b.rows.z),
                          <<>>)
         IN [res |-> [loc.res EXCEPT !.children = Append(@, node)],
             cart_set_number |-> loc.cart_set_number + 1, i |-> b.next]
    ELSE [loc EXCEPT !.i = @ + 1]

\* while let Some(line) = lines.next()
RECURSIVE CfourLoop(_, _)
CfourLoop(loc, lines) ==
    IF loc.i > Len(lines) THEN loc.res ELSE CfourLoop(CfourStep(loc, lines), lines)

\* A parser that rejects a log without a coordinate table.
cfour_parse_or_empty_error(lines, file_name) ==
    LET res == CfourLoop(CfourLocals(file_name), lines) IN
    IF res.children = <<>> THEN Err("No coordinates found") ELSE Ok(res)

cfour_parse(lines, file_name) == Ok(CfourLoop(CfourLocals(file_name), lines))

---------------------------------------------------------------------------
(* unex::parse (UNEX 1.x and 2.x) *)

UNEX1_MARKER ==
    <<">", "Cartesian", "coordinates", "of", "all", "atoms", "(Angstroms)", "in">>
UNEX2_MARKER == <<"Cartesian", "coordinates", "(Angstroms)", "of", "atoms", "in">>

\* The crate::utils collaborator of the UNEX parser.
symbol_to_atomic_number(t) == get_element_by_symbol(t)

\* Tokens that contain '>'.
HasGT(t) == t \in {">", ">>>"}

RECURSIVE FirstGT(_, _)
FirstGT(toks, i) ==
    IF i > Len(toks) THEN i ELSE IF HasGT(toks[i]) THEN i ELSE FirstGT(toks, i + 1)

\* line.split('>').next().unwrap_or("").trim().to_string()
Unex1MoleculeName(line) == JoinToks(SubSeq(line.toks, 1, FirstGT(line.toks, 1) - 1))

\* parts[6] when the line has more than 6 tokens, else "unknown"
Unex2MoleculeName(line) ==
    IF Len(line.toks) > 6 THEN line.toks[7] ELSE "unknown"

\* The index of the molecule's grouping node and the tree that holds it:
\* the molecules map's entry, or a new child and a new entry.
UnexMolecule(st, molecule_name) ==
    IF molecule_name \in DOMAIN st.molecules
    THEN st
    ELSE [st EXCEPT
            !.result = [@ EXCEPT !.children =
                Append(@, Node(molecule_name, TYPE_MOLECULE, EmptyData, <<>>))],
            !.molecules = @ @@ (molecule_name :> Len(st.result.children) + 1)]

\* One counter for all the molecules of the file.
UnexCountGlobal(st, molecule_name) ==
    LET counts == {st.mol_cart_set_number[n] : n \in DOMAIN st.mol_cart_set_number}
        last == IF counts = {} THEN 0 ELSE CHOOSE c \in counts : \A d \in counts : d <= c
    IN [st EXCEPT !.mol_cart_set_number =
           [n \in (DOMAIN @) \cup {molecule_name} |->
               IF n = molecule_name THEN last + 1 ELSE @[n]]]

\* *mol_cart_set_number.entry(name).or_insert(0) += 1
UnexCount(st, molecule_name) ==
    [st EXCEPT !.mol_cart_set_number =
        IF molecule_name \in DOMAIN @
        THEN [@ EXCEPT ![molecule_name] = @ + 1]
        ELSE @ @@ (molecule_name :> 1)]

\* A row of a "UNEX" table: pushed only when it has 7 tokens and all four
\* fields parse, otherwise dropped.
UnexPushRow(acc, items) ==
    IF Len(items) >= 7
       /\ ParseI32(items[3]).some /\ ParseF64(items[5]).some
       /\ ParseF64(items[6]).some /\ ParseF64(items[7]).some
    THEN [atomic_num |-> Append(acc.atomic_num, ParseI32(items[3]).v),
          x |-> Append(acc.x, ParseF64(items[5]).v),
          y |-> Append(acc.y, ParseF64(items[6]).v),
          z |-> Append(acc.z, ParseF64(items[7]).v)]
    ELSE acc

RECURSIVE Unex1Rows(_, _, _)
Unex1Rows(acc, lines, j) ==
    IF j > Len(lines) THEN [rows |-> acc, next |-> j]
    ELSE IF ContainsDashes(lines[j]) THEN [rows |-> acc, next |-> j + 1]
    ELSE Unex1Rows(UnexPushRow(acc, lines[j].toks), lines, j + 1)

\* result.children[mol_idx].children.push(at_coord_node)
UnexAttach(st, molecule_name, rows) ==
    LET mol_idx == st.molecules[molecule_name]
        node == Node("Set#" \o ToString(st.mol_cart_set_number[molecule_name]),
                     TYPE_COORDS,
                     SerCoords(rows.atomic_num, rows.x, rows.y, rows.z), <<>>)
    IN [st EXCEPT !.result.children[mol_idx].children = Append(@, node)]

UnexInitState(file_name) ==
    [result |-> Node(file_name, TYPE_UNEX, EmptyData, <<>>),
     molecules |-> <<>>, mol_cart_set_number |-> <<>>,
     ret |-> "running", err |-> ""]

\* The locals of a 1.x call at its start and the position in
\* content.lines().
Unex1Locals(file_name) == [st |-> UnexInitState(file_name), i |-> 1]

\* One iteration of `while let Some(line) = lines.next()` on the locals.
Unex1Step(loc, lines) ==
    IF ContainsPhrase(lines[loc.i], UNEX1_MARKER)
    THEN LET name == Unex1MoleculeName(lines[loc.i])
             st2 == UnexCount(UnexMolecule(loc.st, name), name)
             b == Unex1Rows(NoRows, lines, loc.i + 4)
         IN [st |-> UnexAttach(st2, name, b.rows), i |-> b.next]
    ELSE [loc EXCEPT !.i = @ + 1]

RECURSIVE Unex1Loop(_, _)
Unex1Loop(loc, lines) ==
    IF loc.i > Len(lines) THEN loc.st ELSE Unex1Loop(Unex1Step(loc, lines), lines)

parse_unex1x(lines, file_name) ==
    Ok(Unex1Loop(Unex1Locals(file_name), lines).result)

\* Tokens that contain "Format:".
HasFormat(t) == t \in {"Format:"}
ContainsFormat(line) == \E i \in 1..Len(line.toks) : HasFormat(line.toks[i])

\* for header_line in lines.by_ref(): the sub-header of a 2.x block.
RECURSIVE Unex2Header(_, _, _, _)
Unex2Header(xyz_format, delimiter_number, lines, j) ==
    IF j > Len(lines)
    THEN [xyz_format |-> xyz_format, next |-> j, err |-> ""]
    ELSE IF ContainsFormat(lines[j])
    THEN IF Len(lines[j].toks) >= 2
         THEN CASE lines[j].toks[2] = "UNEX" ->
                       Unex2Header("Unex", delimiter_number, lines, j + 1)
                [] lines[j].toks[2] = "MOL" ->
                       Unex2Header("Mol", delimiter_number, lines, j + 1)
                [] OTHER ->
                       [xyz_format |-> xyz_format, next |-> j,
                        err |-> "Invalid or unknown XYZ format " \o lines[j].toks[2]]
         ELSE Unex2Header(xyz_format, delimiter_number, lines, j + 1)
    ELSE IF ContainsDashes(lines[j])
    THEN IF xyz_format = "Unex" /\ delimiter_number + 1 < 2
         THEN Unex2Header(xyz_format, delimiter_number + 1, lines, j + 1)
         ELSE [xyz_format |-> xyz_format, next |-> j + 1, err |-> ""]
    ELSE Unex2Header(xyz_format, delimiter_number, lines, j + 1)

\* A "MOL" row handled as the rows of a "UNEX" table are: dropped when a
\* field does not parse.
Unex2MolRowDrop(acc, items) ==
    IF Len(items) >= 4
       /\ (items[1] = "X" \/ symbol_to_atomic_number(items[1]).some)
       /\ ParseF64(items[2]).some /\ ParseF64(items[3]).some /\ ParseF64(items[4]).some
    THEN [rows |->
            [atomic_num |-> Append(acc.atomic_num,
                                   IF items[1] = "X" THEN -1
                                   ELSE symbol_to_atomic_number(items[1]).v),
             x |-> Append(acc.x, ParseF64(items[2]).v),
             y |-> Append(acc.y, ParseF64(items[3]).v),
             z |-> Append(acc.z, ParseF64(items[4]).v)],
          err |-> ""]
    ELSE [rows |-> acc, err |-> ""]

\* A row of a "MOL" table: nothing unless it has 4 tokens; an error for an
\* unknown symbol or a coordinate that does not parse; else four pushes.
Unex2MolRow(acc, items) ==
    IF Len(items) < 4 THEN [rows |-> acc, err |-> ""]
    ELSE IF items[1] # "X" /\ ~symbol_to_atomic_number(items[1]).some
    THEN [rows |-> acc, err |-> "Invalid atom symbol " \o items[1]]
    ELSE IF ~ParseF64(items[2]).some THEN [rows |-> acc, err |-> "Invalid x coordinate"]
    ELSE IF ~ParseF64(items[3]).some THEN [rows |-> acc, err |-> "Invalid y coordinate"]
    ELSE IF ~ParseF64(items[4]).some THEN [rows |-> acc, err |-> "Invalid z coordinate"]
    ELSE [rows |->
            [atomic_num |-> Append(acc.atomic_num,
                                   IF items[1] = "X" THEN -1
                                   ELSE symbol_to_atomic_number(items[1]).v),
             x |-> Append(acc.x, ParseF64(items[2]).v),
             y |-> Append(acc.y, ParseF64(items[3]).v),
             z |-> Append(acc.z, ParseF64(items[4]).v)],
          err |-> ""]

\* for block_line in lines.by_ref(): the table of a 2.x block.
RECURSIVE Unex2Rows(_, _, _, _)
Unex2Rows(acc, xyz_format, lines, j) ==
    IF j > Len(lines) THEN [rows |-> acc, next |-> j, err |-> ""]
    ELSE IF ContainsDashes(lines[j]) THEN [rows |-> acc, next |-> j + 1, err |-> ""]
    ELSE CASE xyz_format = "Unex" ->
                  Unex2Rows(UnexPushRow(acc, lines[j].toks), xyz_format, lines, j + 1)
           [] xyz_format = "Mol" ->
                  LET r == Unex2MolRow(acc, lines[j].toks) IN
                  IF r.err # "" THEN [rows |-> acc, next |-> j, err |-> r.err]
                  ELSE Unex2Rows(r.rows, xyz_format, lines, j + 1)
           [] OTHER -> Unex2Rows(acc, xyz_format, lines, j + 1)

RECURSIVE Unex2Loop(_, _, _)
Unex2Loop(st, lines, i) ==
    IF i > Len(lines) THEN st
    ELSE IF ContainsPhrase(lines[i], UNEX2_MARKER)
    THEN LET name == Unex2MoleculeName(lines[i])
             st2 == UnexCount(UnexMolecule(st, name), name)
             h == Unex2Header("Invalid", 0, lines, i + 1)
             b == Unex2Rows(NoRows, h.xyz_format, lines,
                            IF h.xyz_format = "Mol" THEN h.next + 2 ELSE h.next)
         IN IF h.err # "" THEN Fail(st2, h.err)
            ELSE IF b.err # "" THEN Fail(st2, b.err)
            ELSE Unex2Loop(UnexAttach(st2, name, b.rows), lines, b.next)
    ELSE Unex2Loop(st, lines, i + 1)

parse_unex2x(lines, file_name) ==
    LET st == Unex2Loop(UnexInitState(file_name), lines, 1) IN
    IF st.ret = "err" THEN Err(st.err) ELSE Ok(st.result)

unex_parse(lines, file_name) ==
    LET version == get_format_version(IF lines = <<>> THEN L(<<>>) ELSE lines[1]) IN
    IF version = None THEN Err("Invalid UNEX file format.")
    ELSE IF ~version.some THEN Err(version.panic)
    ELSE IF version.v < 2000000 THEN parse_unex1x(lines, file_name)
    ELSE parse_unex2x(lines, file_name)

---------------------------------------------------------------------------
(* cube::parse *)

\* serde_json::to_vec(&VolumeCube { ... })
SerVolumeCube(comment1, comment2, box_origin, steps_number, steps_size, cube_data) ==
    [json |-> "VolumeCube", comment1 |-> comment1, comment2 |-> comment2,
     box_origin |-> JsonF64s(box_origin), steps_number |-> steps_number,
     steps_size |-> [i \in 1..Len(steps_size) |-> JsonF64s(steps_size[i])],
     cube_data |-> [i \in 1..Len(cube_data) |->
                      [j \in 1..Len(cube_data[i]) |-> JsonF64s(cube_data[i][j])]]]

\* parse_grid_line(line, line_number), line_number 1-based
parse_grid_line(line, line_number) ==
    LET parts == line.toks
        where == ToString(line_number)
    IN
    IF Len(parts) < 4
    THEN Err("Invalid grid line at line " \o where \o ", expected 4 values.")
    ELSE IF ~ParseI32(parts[1]).some
    THEN Err("Invalid grid count at line " \o where \o ".")
    ELSE IF \E j \in 2..4 : ~ParseF64(parts[j]).some
    THEN Err("Invalid grid vector value at line " \o where \o ".")
    ELSE Ok([n |-> ParseI32(parts[1]).v,
             vec |-> [j \in 1..3 |-> ParseF64(parts[j + 1]).v]])

\* One atom line: an error, or four pushes (coordinates in Angstrom).
CubeAtomRow(acc, parts, line_number) ==
    LET where == ToString(line_number) \o "." IN
    IF Len(parts) < 5
    THEN [rows |-> acc, err |-> "Invalid atom data at line " \o ToString(line_number)
                                 \o ", expected 5 values."]
    ELSE IF ~ParseI32(parts[1]).some
    THEN [rows |-> acc, err |-> "Invalid atomic number at line " \o where]
    ELSE IF ~ParseF64(parts[3]).some
    THEN [rows |-> acc, err |-> "Invalid x coordinate at line " \o where]
    ELSE IF ~ParseF64(parts[4]).some
    THEN [rows |-> acc, err |-> "Invalid y coordinate at line " \o where]
    ELSE IF ~ParseF64(parts[5]).some
    THEN [rows |-> acc, err |-> "Invalid z coordinate at line " \o where]
    ELSE [rows |-> [atomic_num |-> Append(acc.atomic_num, ParseI32(parts[1]).v),
                    x |-> Append(acc.x, MulBohr(ParseF64(parts[3]).v)),
                    y |-> Append(acc.y, MulBohr(ParseF64(parts[4]).v)),
                    z |-> Append(acc.z, MulBohr(ParseF64(parts[5]).v))],
          err |-> ""]

\* for _ in 0..natm: the atom lines, from line i.
RECURSIVE CubeAtoms(_, _, _, _)
CubeAtoms(acc, lines, i, remaining) ==
    IF remaining = 0 THEN [rows |-> acc, next |-> i, err |-> ""]
    ELSE IF i > Len(lines)
    THEN [rows |-> acc, next |-> i, err |-> "Unexpected end of file, expected atom data."]
    ELSE LET r == CubeAtomRow(acc, lines[i].toks, i) IN
         IF r.err # "" THEN [rows |-> acc, next |-> i, err |-> r.err]
         ELSE CubeAtoms(r.rows, lines, i + 1, remaining - 1)

\* A DSET_IDS line that is read and not looked at.
CubeDsetIdsAny(lines, i) ==
    IF i > Len(lines) THEN "Unexpected end of file, expected DSET_IDS line." ELSE ""

\* The DSET_IDS line, when the atom count is negative.
CubeDsetIds(lines, i) ==
    IF i > Len(lines) THEN "Unexpected end of file, expected DSET_IDS line."
    ELSE LET parts == lines[i].toks
             num_ids == IF parts # <<>> /\ ParseI32(parts[1]).some
                        THEN ParseI32(parts[1]).v ELSE 1
         IN IF num_ids # 1
            THEN "Unsupported number of identifiers per voxel " \o ToString(num_ids)
                 \o " at line " \o ToString(i) \o "."
            ELSE ""

\* The remaining lines, flattened into the data values.
RECURSIVE CubeData(_, _, _)
CubeData(acc, lines, i) ==
    IF i > Len(lines) THEN [flat |-> acc, err |-> ""]
    ELSE LET toks == lines[i].toks IN
         IF \E k \in 1..Len(toks) : ~ParseF64(toks[k]).some
         THEN [flat |-> acc,
               err |-> "Invalid volumetric data value at line " \o ToString(i) \o "."]
         ELSE CubeData(acc \o [k \in 1..Len(toks) |-> ParseF64(toks[k]).v],
                       lines, i + 1)

\* `n as usize` of an i32 and usize products.  A usize is held by its
\* two's-complement representative: a negative one stands for a value of
\* at least half the address space.  The product overflows when a factor
\* is such a value and the other is not 0 or 1.
MulOverflows(a, b) == (a < 0 /\ b < 0) \/ (a < 0 /\ b >= 2) \/ (b < 0 /\ a >= 2)

\* (n1 as usize) * (n2 as usize) * (n3 as usize)
CubeTotalPoints(n) ==
    IF overflow_checks /\ (MulOverflows(n[1], n[2]) \/ MulOverflows(n[1] * n[2], n[3]))
    THEN Err(PanicMulOverflow)
    ELSE Ok(n[1] * n[2] * n[3])

\* Vec::with_capacity(n) panics when n elements exceed isize::MAX bytes.
CapacityOverflows(n) == n < 0

\* A reshape with the first index running fastest.
CubeReshapeFirstFastest(flat, n) ==
    IF CapacityOverflows(n[1]) THEN Err(PanicCapacity)
    ELSE IF n[1] > 0 /\ CapacityOverflows(n[2]) THEN Err(PanicCapacity)
    ELSE IF n[1] > 0 /\ n[2] > 0 /\ n[3] < 0 THEN Err(PanicCapacity)
    ELSE Ok([i \in 1..n[1] |-> [j \in 1..n[2] |-> [k \in 1..n[3] |->
                flat[((k - 1) * n[2] + (j - 1)) * n[1] + i]]]])

\* The reshape of the flat data into [n1][n2][n3].
CubeReshape(flat, n) ==
    IF CapacityOverflows(n[1]) THEN Err(PanicCapacity)
    ELSE IF n[1] > 0 /\ CapacityOverflows(n[2]) THEN Err(PanicCapacity)
    ELSE IF n[1] > 0 /\ n[2] > 0 /\ n[3] < 0 THEN Err(PanicCapacity)
    ELSE Ok([i \in 1..n[1] |-> [j \in 1..n[2] |->
                SubSeq(flat, ((i - 1) * n[2] + (j - 1)) * n[3] + 1,
                             ((i - 1) * n[2] + (j - 1)) * n[3] + n[3])]])

\* The part of parse after the atom lines and the DSET_IDS line: the data
\* from line i, the size check, the reshape and the result tree.
CubeVolume(lines, i, file_name, header, rows) ==
    LET total == CubeTotalPoints(header.steps_number)
        d == CubeData(<<>>, lines, i)
        shaped == CubeReshape(d.flat, header.steps_number)
    IN
    IF ~total.ok THEN total
    ELSE IF CapacityOverflows(total.v) THEN Err(PanicCapacity)
    ELSE IF d.err # "" THEN Err(d.err)
    ELSE IF Len(d.flat) # total.v
    THEN Err("Mismatch in volumetric data: expected " \o ToString(total.v)
             \o " points, found " \o ToString(Len(d.flat)) \o ".")
    ELSE IF ~shaped.ok THEN shaped
    ELSE Ok(Node(file_name, TYPE_CUBE,
                 SerVolumeCube(header.comment1, header.comment2, header.box_origin,
                               header.steps_number, header.steps_size, shaped.v),
                 <<Node("CubeMol", TYPE_COORDS,
                        SerCoords(rows.atomic_num, rows.x, rows.y, rows.z), <<>>)>>))

Abs(n) == IF n < 0 THEN -n ELSE n

\* Lines 1 to 6: the comments, the header line and the three grid lines.
CubeHeader(lines) ==
    IF Len(lines) < 1 THEN Err("File is empty, expected comment line 1.")
    ELSE IF Len(lines) < 2 THEN Err("Unexpected end of file, expected comment line 2.")
    ELSE IF Len(lines) < 3 THEN Err("Unexpected end of file, expected header line.")
    ELSE LET parts == lines[3].toks IN
    IF Len(parts) < 4 THEN Err("Invalid header at line 3, expected at least 4 values.")
    ELSE IF ~ParseI32(parts[1]).some THEN Err("Invalid number of atoms at line 3.")
    ELSE LET natm_raw == ParseI32(parts[1]).v
             nval == IF Len(parts) > 4 /\ ParseI32(parts[5]).some
                     THEN ParseI32(parts[5]).v ELSE 1
             grid == [k \in 1..3 |->
                        IF 3 + k > Len(lines)
                        THEN Err("Unexpected end of file, expected grid line.")
                        ELSE parse_grid_line(lines[3 + k], 3 + k)]
         IN
    IF natm_raw > 0 /\ Len(parts) > 4 /\ nval > 1
    THEN Err("Unsupported number of data values per voxel " \o ToString(nval)
             \o " in cube file.")
    ELSE IF \E j \in 2..4 : ~ParseF64(parts[j]).some
    THEN Err("Invalid origin coordinate at line 3.")
    ELSE IF ~grid[1].ok THEN grid[1]
    ELSE IF ~grid[2].ok THEN grid[2]
    ELSE IF ~grid[3].ok THEN grid[3]
    ELSE Ok([comment1 |-> TrimToString(lines[1]), comment2 |-> TrimToString(lines[2]),
             natm_raw |-> natm_raw,
             box_origin |-> [j \in 1..3 |-> ParseF64(parts[j + 1]).v],
             steps_number |-> [k \in 1..3 |-> grid[k].v.n],
             steps_size |-> [k \in 1..3 |-> grid[k].v.vec]])

cube_parse(lines, file_name) ==
    LET h == CubeHeader(lines) IN
    IF ~h.ok THEN h
    ELSE LET atoms == CubeAtoms(NoRows, lines, 7, Abs(h.v.natm_raw))
             dset == IF h.v.natm_raw < 0 THEN CubeDsetIds(lines, atoms.next) ELSE ""
         IN
         IF atoms.err # "" THEN Err(atoms.err)
         ELSE IF dset # "" THEN Err(dset)
         ELSE CubeVolume(lines, IF h.v.natm_raw < 0 THEN atoms.next + 1 ELSE atoms.next,
                         file_name, h.v, atoms.rows)

---------------------------------------------------------------------------
(* Sample file contents. *)

CardO == L(<<"O", "0.0", "0.0", "0.0">>)
CardH == L(<<"H", "0.0", "0.0", "0.96">>)
CardZz == L(<<"Zz", "0.0", "0.0", "0.0">>)
GridLine == L(<<"1", "1.0", "0.0", "0.0">>)
Dashes == L(<<"-----">>)

\* "2\nwater\nO 0.0 0.0 0.0\nH 0.0 0.0 0.96\n"
WaterXyz == <<L(<<"2">>), L(<<"water">>), CardO, CardH>>

\* An XYZ block whose second card names no element.
BadAtomXyz == <<L(<<"2">>), L(<<"water">>), CardO, CardZz>>

\* An XYZ block followed by a V2000 control line and an atom line.
XyzThenMol ==
    <<L(<<"1">>), L(<<"mol">>), CardO, L(<<"1", "0", "V2000">>),
      IndL(<<"0.0", "0.0", "0.96", "H">>)>>

\* An XYZ block followed by a control line without an atom count.
XyzThenBadMol == <<L(<<"1">>), L(<<"mol">>), CardO, L(<<"x", "0", "V2000">>)>>

Garbage == <<L(<<"hello">>), L(<<"world">>)>>

\* A cube of one voxel and one atom.
CubeFile ==
    <<L(<<"cube">>), L(<<"density">>), L(<<"1", "0.0", "0.0", "0.0">>),
      GridLine, GridLine, GridLine, L(<<"6", "6", "1.0", "0.0", "0.0">>),
      L(<<"0.5">>)>>

\* The same cube with "1" as its first comment line: the header line then
\* reads as an XYZ card.
CubeLikeXyz == [CubeFile EXCEPT ![1] = L(<<"1">>)]

\* A cube with two data values for one voxel.
CubeTooMuchData == CubeFile \o <<L(<<"0.5">>)>>

\* A cube whose third grid count is negative.
CubeNegativeGrid == [CubeFile EXCEPT ![6] = L(<<"-1", "1.0", "0.0", "0.0">>)]

Unex1Block(name) ==
    <<L(<<name>> \o UNEX1_MARKER \o <<"a.u.">>), Dashes, L(<<"header">>), Dashes,
      L(<<"1", "O", "8", "15.99", "0.0", "0.0", "0.0">>),
      L(<<"2", "H", "x", "1.00", "0.0", "0.0", "0.96">>), Dashes>>

Unex1File == <<L(<<"UNEX", "1.12-3-abc">>)>> \o Unex1Block("mol")

Unex2MolBlock(name, sym) ==
    <<L(UNEX2_MARKER \o <<name>>), L(<<"Format:", "MOL">>), Dashes,
      L(<<"title">>), L(<<"header">>), L(<<sym, "0.0", "0.0", "0.0">>), Dashes>>

Unex2File == <<L(<<"UNEX", "2.0-0-x">>)>> \o Unex2MolBlock("mol", "X")

\* A 2.x file whose block declares an unknown sub-format.
Unex2BadFormat ==
    <<L(<<"UNEX", "2.0-0-x">>), L(UNEX2_MARKER \o <<"mol">>), L(<<"Format:", "XYZ">>)>>

CfourFile ==
    <<L(<<"log">>), IndL(CFOUR_SIGNATURE), IndL(CFOUR_MARKER), Dashes,
      L(<<"header">>), L(<<"O", "8", "0.0", "0.0", "1.0">>),
      L(<<"X", "0", "0.0", "0.0", "0.0">>), Dashes>>

MolFile ==
    <<L(<<"ethane">>), L(<<>>), L(<<>>), IndL(<<"2", "1", "0", "V2000">>),
      IndL(<<"0.0", "0.0", "0.0", "C">>), IndL(<<"1.0", "0.0", "0.0", "C">>),
      IndL(<<"1", "2", "1">>)>>

---------------------------------------------------------------------------
(* The dispatcher: ChemistryImporter::load(file_path). *)

\* How many times the file may change on disk while one load runs.
MaxChanges == 1

\* PARSERS: the names; TestFn and ParseFn are the functions of entry i.
PARSERS == <<"XYZ", "Gaussian Cube", "UNEX", "Cfour", "MDL Mol V2000">>

TestFn(i, file) ==
    CASE i = 1 -> xyz_test(file)
      [] i = 2 -> cube_test(file)
      [] i = 3 -> unex_test(file)
      [] i = 4 -> cfour_test(file)
      [] i = 5 -> mdlmol2000_test(file)

ParseFn(i, lines, name) ==
    CASE i = 1 -> xyz_parse(lines, name)
      [] i = 2 -> cube_parse(lines, name)
      [] i = 3 -> unex_parse(lines, name)
      [] i = 4 -> cfour_parse(lines, name)
      [] i = 5 -> mdlmol2000_parse(lines, name)

\* Path::new(&file_path).file_name(), for the path the model loads.
load_file_name == "water.xyz"

\* serde_json::to_vec(&node)
SerNode(node) == [json |-> "Node", node |-> node]

\* A dispatcher that keeps only the first error.
PushErrorFirstOnly(errs, i, e) ==
    IF errs = <<>> THEN <<PARSERS[i] \o ": " \o e>> ELSE errs

\* errors.push(format!("{}: {}", name, e))
PushError(errs, i, e) == Append(errs, PARSERS[i] \o ": " \o e)

\* errors.join("; ")
RECURSIVE JoinErrors(_)
JoinErrors(errs) ==
    IF errs = <<>> THEN ""
    ELSE IF Len(errs) = 1 THEN errs[1]
    ELSE errs[1] \o "; " \o JoinErrors(Tail(errs))

\* The Err that ends load when the loop over PARSERS is exhausted.
NoSuitableParser(errs) ==
    Err("No suitable parser found for file '" \o load_file_name \o "'. Errors: "
        \o JoinErrors(errs))

\* The loop's position after entry i: `continue`, or the end of a match arm.
NextEntry(i) == i + 1

\* A recognizer that goes on to the parser whatever the verdict was.
AfterTestAlwaysParse(v, i) == [pc |-> "parse", idx |-> i]

\* What the match on test_fn(&file_path) does next: run the parser of the
\* same entry on Ok(true), else go on with the next entry.
AfterTest(v, i) ==
    IF v.ok /\ v.v THEN [pc |-> "parse", idx |-> i]
    ELSE IF IsPanic(v) THEN [pc |-> "panicked", idx |-> i]
    ELSE [pc |-> "test", idx |-> NextEntry(i)]

\* A dispatcher that gives up at the first parser that fails.
AfterParseGiveUp(r, i) ==
    IF r.ok THEN [pc |-> "done", idx |-> i]
    ELSE IF IsPanic(r) THEN [pc |-> "panicked", idx |-> i]
    ELSE [pc |-> "test", idx |-> Len(PARSERS) + 1]

\* What the match on parse_fn(&content, file_name) does next.
AfterParse(r, i) ==
    IF r.ok THEN [pc |-> "done", idx |-> i]
    ELSE IF IsPanic(r) THEN [pc |-> "panicked", idx |-> i]
    ELSE [pc |-> "test", idx |-> NextEntry(i)]

\* The files the path can hold.
DiskFiles ==
    { File(c) : c \in {WaterXyz, BadAtomXyz, XyzThenMol, XyzThenBadMol, Garbage, <<>>,
                       CubeFile, CubeLikeXyz, CubeTooMuchData, CubeNegativeGrid,
                       Unex1File, Unex2File, Unex2BadFormat, CfourFile, MolFile} }
    \cup {Missing, Binary(WaterXyz, 3), Binary(Unex1File, 2), Binary(Garbage, 1)}

IdleTest ==
    /\ fileA = Missing /\ fileB = Missing /\ tfmt = 0
    /\ verdictA = NoResult /\ verdictB = NoResult /\ verdictAgain = NoResult

\* The content was not built by one of the generators of contents.
NoGen == [kind |-> "none"]

IdleParse ==
    pfmt = 0 /\ pinput = <<>> /\ pout = NoResult /\ pblocks = <<>> /\ pgen = NoGen

\* No round trip and no concurrent call is under way.
NoPayload == [atomic_num |-> <<>>, x |-> <<>>, y |-> <<>>, z |-> <<>>]
IdleTrip == payload = NoPayload /\ wire = NoResult /\ back = NoResult
IdleThread == [phase |-> "idle"]
IdleCalls == threads = <<>> /\ ncalls = 0

IdleLoad ==
    /\ disk = Missing /\ content = <<>> /\ idx = 0 /\ pc = "idle"
    /\ errors = <<>> /\ result = NoResult /\ log = <<>> /\ changes = 0
    /\ opens = 0 /\ firstRead = <<>>

Init ==
    /\ disk \in DiskFiles
    /\ content = <<>>
    /\ idx = 1
    /\ pc = "start"
    /\ errors = <<>>
    /\ result = NoResult
    /\ log = <<>>
    /\ changes = 0
    /\ opens = 0
    /\ firstRead = <<>>
    /\ overflow_checks \in BOOLEAN
    /\ IdleTest /\ IdleParse /\ IdleTrip /\ IdleCalls

\* The `?` on the result r of the initial read.
OnRead(r) ==
    IF r.ok
    THEN content' = r.v /\ firstRead' = r.v /\ pc' = "test" /\ result' = result
    ELSE content' = content /\ firstRead' = firstRead /\ pc' = "done"
         /\ result' = Err("Failed to read file: " \o r.e)

\* let content = std::fs::read_to_string(&file_path).map_err(...)?;
LoadRead ==
    /\ pc = "start"
    /\ OnRead(read_to_string(disk))
    /\ opens' = opens + 1
    /\ UNCHANGED <<disk, idx, errors, log, changes, overflow_checks>>
    /\ UNCHANGED <<testVars, parseVars, pureVars>>

\* The arms Ok(false) and Err(e) of the match on the recognizer's result v,
\* and the step to the parser on Ok(true).  A panic of the recognizer ends
\* load without a return value.
OnTest(v) ==
    /\ log' = Append(log, [op |-> "test", fmt |-> idx, out |-> v])
    /\ errors' = IF v.ok \/ IsPanic(v) THEN errors ELSE PushError(errors, idx, v.e)
    /\ result' = IF IsPanic(v) THEN v ELSE result
    /\ pc' = AfterTest(v, idx).pc
    /\ idx' = AfterTest(v, idx).idx

\* match test_fn(&file_path): the recognizer of entry idx reads the file as
\* it is on disk now.
LoadTest ==
    /\ pc = "test" /\ idx <= Len(PARSERS)
    /\ OnTest(TestFn(idx, disk))
    /\ opens' = opens + 1
    /\ UNCHANGED <<disk, content, changes, firstRead, overflow_checks>>
    /\ UNCHANGED <<testVars, parseVars, pureVars>>

\* The arms Ok(node) and Err(e) of the match on the parser's result r.  A
\* panic of the parser ends load without a return value.
OnParse(r) ==
    /\ log' = Append(log, [op |-> "parse", fmt |-> idx, out |-> r])
    /\ errors' = IF r.ok \/ IsPanic(r) THEN errors ELSE PushError(errors, idx, r.e)
    /\ result' = IF r.ok THEN Ok(SerNode(r.v))
                 ELSE IF IsPanic(r) THEN r ELSE result
    /\ pc' = AfterParse(r, idx).pc
    /\ idx' = AfterParse(r, idx).idx

\* A dispatcher that reads the file again for every parser.
ParserInputReread == disk.lines

\* The &content handed to every parse_fn: the String of the initial read.
ParserInput == content

\* match parse_fn(&content, file_name)
LoadParse ==
    /\ pc = "parse"
    /\ OnParse(ParseFn(idx, ParserInput, load_file_name))
    /\ UNCHANGED <<disk, content, changes, opens, firstRead, overflow_checks>>
    /\ UNCHANGED <<testVars, parseVars, pureVars>>

\* The loop is exhausted: Err(format!("No suitable parser found ..."))
LoadFail ==
    /\ pc = "test" /\ idx > Len(PARSERS)
    /\ result' = NoSuitableParser(errors)
    /\ pc' = "done"
    /\ UNCHANGED <<disk, content, idx, errors, log, changes, opens, firstRead,
                   overflow_checks>>
    /\ UNCHANGED <<testVars, parseVars, pureVars>>

\* The environment: the file is replaced, removed or corrupted on disk
\* while load runs.
ChangeFile ==
    /\ pc \in {"test", "parse"}
    /\ changes < MaxChanges
    /\ \E f \in DiskFiles \ {disk} : disk' = f
    /\ changes' = changes + 1
    /\ UNCHANGED <<content, idx, pc, errors, result, log, opens, firstRead,
                   overflow_checks>>
    /\ UNCHANGED <<testVars, parseVars, pureVars>>

Next == LoadRead \/ LoadTest \/ LoadParse \/ LoadFail \/ ChangeFile

Spec == Init /\ [][Next]_vars


---------------------------------------------------------------------------
(* The recognizers on their own: one test function is called on a file    *)
(* and on a second file that differs from the first by one edit.          *)

\* The MAX_VALIDATION_LINES of the five entries of PARSERS.
ValidationLines ==
    <<XYZ_MAX_VALIDATION_LINES, CUBE_MAX_VALIDATION_LINES, UNEX_MAX_VALIDATION_LINES,
      CFOUR_MAX_VALIDATION_LINES, MDL_MAX_VALIDATION_LINES>>

\* n lines of free text.
Pad(n) == [k \in 1..n |-> L(<<"text">>)]

\* An XYZ block of eight atoms: ten lines.
LongXyz == <<L(<<"8">>), L(<<"octet">>)>> \o [k \in 1..8 |-> CardH]

TestFiles ==
    { File(c) : c \in {WaterXyz, LongXyz, CubeFile, Unex1File, CfourFile, MolFile,
                       Garbage, <<>>, Pad(CFOUR_MAX_VALIDATION_LINES - 1),
                       Pad(CFOUR_MAX_VALIDATION_LINES)} }

\* The lines an edit can put into a file.
TestEditLines ==
    {IndL(CFOUR_SIGNATURE), CardO, L(<<"hello">>), IndL(<<"2", "1", "0", "V2000">>),
     L(<<"UNEX", "1.12-3-abc">>), GridLine, L(<<"8">>)}

\* The file with line k replaced by l, or with l appended when k is one
\* past the end.
WithLine(file, k, l) ==
    [file EXCEPT !.lines = IF k <= Len(file.lines) THEN [file.lines EXCEPT ![k] = l]
                           ELSE Append(file.lines, l)]

InitTest ==
    /\ fileA \in TestFiles
    /\ fileB = fileA
    /\ tfmt = 0
    /\ verdictA = NoResult /\ verdictB = NoResult /\ verdictAgain = NoResult
    /\ overflow_checks \in BOOLEAN
    /\ IdleLoad /\ IdleParse /\ IdleTrip /\ IdleCalls


\* The second file is the first with one line replaced or appended.
EditLine ==
    /\ tfmt = 0
    /\ \E k \in 1..(Len(fileA.lines) + 1) : \E l \in TestEditLines :
          fileB' = WithLine(fileA, k, l)
    /\ UNCHANGED <<fileA, tfmt, verdictA, verdictB, verdictAgain>>
    /\ UNCHANGED <<overflow_checks, loadVars, parseVars, pureVars>>

\* The second file is the first cut after k lines.
Truncate ==
    /\ tfmt = 0
    /\ \E k \in 0..(Len(fileA.lines) - 1) : fileB' = File(Take(fileA.lines, k))
    /\ UNCHANGED <<fileA, tfmt, verdictA, verdictB, verdictAgain>>
    /\ UNCHANGED <<overflow_checks, loadVars, parseVars, pureVars>>

\* The second file is the first with bytes that are not UTF-8 in line k.
Corrupt ==
    /\ tfmt = 0
    /\ \E k \in 1..Len(fileA.lines) : fileB' = Binary(fileA.lines, k)
    /\ UNCHANGED <<fileA, tfmt, verdictA, verdictB, verdictAgain>>
    /\ UNCHANGED <<overflow_checks, loadVars, parseVars, pureVars>>

\* test_fn(&file_path), for either file.
CallTest ==
    /\ tfmt = 0
    /\ \E i \in 1..Len(PARSERS) :
          /\ tfmt' = i
          /\ verdictA' = TestFn(i, fileA)
          /\ verdictB' = TestFn(i, fileB)
    /\ UNCHANGED <<fileA, fileB, verdictAgain, overflow_checks, loadVars, parseVars, pureVars>>

\* The same test function called once more on the first file.
CallTestAgain ==
    /\ tfmt # 0 /\ verdictAgain = NoResult
    /\ verdictAgain' = TestFn(tfmt, fileA)
    /\ UNCHANGED <<fileA, fileB, tfmt, verdictA, verdictB, overflow_checks,
                   loadVars, parseVars, pureVars>>

NextTest == EditLine \/ Truncate \/ Corrupt \/ CallTest \/ CallTestAgain

SpecTest == InitTest /\ [][NextTest]_vars

---------------------------------------------------------------------------
(* The parsers on their own: one parse function is called on a content    *)
(* that is a sample, a sample with one line replaced, or a sequence of    *)
(* XYZ blocks.                                                             *)

\* How many XYZ blocks a content is built from.
MaxBlocks == 2

XyzCountTokens == {"1", "2"}

XyzCommentLines == {L(<<"water">>), IndL(<<"water", "dimer">>), IndL(<<>>)}

XyzCardLines == {CardO, CardH, L(<<"8", "1.0", "-1.5", "1e2", "extra">>), CardZz}

XyzBlocks ==
    UNION { [count : {c}, comment : XyzCommentLines,
             cards : [1..UsizeTable[c] -> XyzCardLines]] : c \in XyzCountTokens }

BlockText(b) == <<L(<<b.count>>), b.comment>> \o b.cards

RECURSIVE XyzText(_)
XyzText(blocks) ==
    IF blocks = <<>> THEN <<>> ELSE BlockText(blocks[1]) \o XyzText(Tail(blocks))

ParseSamples ==
    {WaterXyz, BadAtomXyz, XyzThenMol, CubeFile, CubeTooMuchData, CubeNegativeGrid,
     Unex1File, Unex2File, Unex2BadFormat, CfourFile, MolFile, Garbage, <<>>}

\* The lines an edit can put into a sample.
ParseEditLines ==
    {L(<<"O", "0.0", "x", "0.0">>), L(<<"O", "0.0", "0.0">>), L(<<>>), Dashes,
     L(<<"1", "O", "8", "15.99", "nan", "0.0", "x">>),
     L(<<"6", "6", "1.0", "0.0">>), IndL(<<"0.0", "0.0", "x", "H">>),
     L(<<"6", "6", "1.0", "x", "0.0">>), IndL(CFOUR_MARKER)}

InitParse ==
    /\ pfmt \in 1..Len(PARSERS)
    /\ pinput \in ParseSamples
    /\ pout = NoResult
    /\ pblocks = <<>>
    /\ pgen = NoGen
    /\ overflow_checks \in BOOLEAN
    /\ IdleLoad /\ IdleTest /\ IdleTrip /\ IdleCalls

\* One more well-formed or ill-formed XYZ block at the end of the content.
AppendBlock ==
    /\ pfmt = 1 /\ pout = NoResult /\ pgen = NoGen
    /\ pinput = XyzText(pblocks)
    /\ Len(pblocks) < MaxBlocks
    /\ \E b \in XyzBlocks :
          /\ pblocks' = Append(pblocks, b)
          /\ pinput' = XyzText(Append(pblocks, b))
    /\ UNCHANGED <<pfmt, pout, pgen, overflow_checks, loadVars, testVars, pureVars>>

\* An atom line the XYZ grammar accepts: at least four fields, an atomic
\* number or a symbol of the periodic table, and three numbers.
ValidAtomLine(line) ==
    /\ Len(line.toks) >= 4
    /\ ParseI32(line.toks[1]).some \/ get_element_by_symbol(line.toks[1]).some
    /\ \A j \in 2..4 : ParseF64(line.toks[j]).some

\* A block of a count line N > 0, a comment line and N valid atom lines.
WellFormedBlock(b) ==
    /\ ParseUsize(b.count).some
    /\ ParseUsize(b.count).v > 0
    /\ Len(b.cards) = ParseUsize(b.count).v
    /\ \A j \in 1..Len(b.cards) : ValidAtomLine(b.cards[j])

\* The content ends inside its last block: only the first `keep` lines of
\* that block are there.  (Every text a cut of ill-formed blocks gives
\* without an ill-formed line in it is also a cut of well-formed blocks.)
CutInput ==
    /\ pfmt = 1 /\ pout = NoResult /\ pgen = NoGen
    /\ pblocks # <<>>
    /\ \A i \in 1..Len(pblocks) : WellFormedBlock(pblocks[i])
    /\ pinput = XyzText(pblocks)
    /\ \E keep \in 1..(Len(BlockText(pblocks[Len(pblocks)])) - 1) :
          /\ pinput' = Take(pinput, Len(pinput) - Len(BlockText(pblocks[Len(pblocks)])) + keep)
          /\ pgen' = [kind |-> "cut", keep |-> keep]
    /\ UNCHANGED <<pfmt, pout, pblocks, overflow_checks, loadVars, testVars, pureVars>>

\* One line of a sample replaced.
EditInput ==
    /\ pout = NoResult /\ pblocks = <<>> /\ pgen = NoGen
    /\ pinput \in ParseSamples
    /\ \E k \in 1..Len(pinput) : \E l \in ParseEditLines :
          pinput' = [pinput EXCEPT ![k] = l]
    /\ UNCHANGED <<pfmt, pout, pblocks, pgen, overflow_checks, loadVars, testVars, pureVars>>

\* UNEX contents built from a version line and blocks.
MaxUnexBlocks == 3
UnexNames == {"a", "b"}
UnexStyles == {"1x", "2x-mol", "2x-unex", "2x-none"}

\* The rows of the tables of a content: of its "UNEX" tables (1.x, and 2.x
\* with Format: UNEX) and of its "MOL" tables.
UnexRowVariants == {"bad-number", "bad-coordinate", "short", "good"}

UnexRows(v) ==
    CASE v = "bad-number" ->
            <<L(<<"1", "O", "8", "15.99", "0.0", "0.0", "0.0">>),
              L(<<"2", "H", "x", "1.00", "0.0", "0.0", "0.96">>)>>
      [] v = "bad-coordinate" ->
            <<L(<<"1", "O", "8", "15.99", "0.0", "x", "0.0">>),
              L(<<"2", "H", "1", "1.00", "0.0", "0.0", "0.96">>)>>
      [] v = "short" ->
            <<L(<<"1", "O", "8", "15.99", "0.0", "0.0">>),
              L(<<"2", "H", "1", "1.00", "nan", "0.0", "0.96">>)>>
      [] v = "good" ->
            <<L(<<"1", "O", "8", "15.99", "0.0", "0.0", "0.0">>),
              L(<<"2", "H", "1", "1.00", "0.0", "0.0", "0.96">>),
              L(<<"3", "X", "-1", "0.0", "1.0", "0.0", "0.0">>)>>

MolRows(v) ==
    CASE v = "bad-number" -> <<L(<<"O", "0.0", "0.0", "0.0">>), L(<<"Zz", "0.0", "0.0", "0.0">>)>>
      [] v = "bad-coordinate" -> <<L(<<"O", "0.0", "x", "0.0">>), L(<<"H", "0.0", "0.0", "0.96">>)>>
      [] v = "short" -> <<L(<<"O", "0.0", "0.0">>), L(<<"H", "0.0", "0.0", "0.96", "extra">>)>>
      [] v = "good" -> <<L(<<"X", "0.0", "0.0", "0.0">>), L(<<"O", "0.0", "0.0", "0.0">>),
                         L(<<"H", "0.0", "0.0", "0.96">>)>>

\* The rows of the table of a block of style s.
UnexTableRows(s, v) == IF s = "2x-mol" THEN MolRows(v) ELSE UnexRows(v)

\* A block of the content: the marker line of the molecule, the sub-header
\* (with a Format line but for style 2x-none), the rows and a closing line
\* of dashes.
UnexBlockText(b, v) ==
    CASE b.style = "1x" ->
            <<L(<<b.name>> \o UNEX1_MARKER \o <<"a.u.">>), Dashes, L(<<"header">>), Dashes>>
            \o UnexRows(v) \o <<Dashes>>
      [] b.style = "2x-mol" ->
            <<L(UNEX2_MARKER \o <<b.name>>), L(<<"Format:", "MOL">>), Dashes,
              L(<<"title">>), L(<<"header">>)>> \o MolRows(v) \o <<Dashes>>
      [] b.style = "2x-unex" ->
            <<L(UNEX2_MARKER \o <<b.name>>), L(<<"Format:", "UNEX">>), Dashes,
              L(<<"header">>), Dashes>> \o UnexRows(v) \o <<Dashes>>
      [] b.style = "2x-none" ->
            <<L(UNEX2_MARKER \o <<b.name>>), Dashes, L(<<"header">>), Dashes>>
            \o UnexRows(v) \o <<Dashes>>

RECURSIVE UnexBlocksText(_, _)
UnexBlocksText(blocks, v) ==
    IF blocks = <<>> THEN <<>>
    ELSE UnexBlockText(Head(blocks), v) \o UnexBlocksText(Tail(blocks), v)

UnexText(g) == <<L(<<"UNEX", g.version>>)>> \o UnexBlocksText(g.blocks, g.rows)

\* A UNEX content is started: its version line.
StartUnex ==
    /\ pfmt = 3 /\ pout = NoResult /\ pblocks = <<>> /\ pgen = NoGen
    /\ pinput = <<>>
    /\ \E v \in DOMAIN VersionTable, r \in UnexRowVariants :
          /\ pgen' = [kind |-> "unex", version |-> v, rows |-> r, blocks |-> <<>>]
          /\ pinput' = UnexText([version |-> v, rows |-> r, blocks |-> <<>>])
    /\ UNCHANGED <<pfmt, pout, pblocks, overflow_checks, loadVars, testVars, pureVars>>

\* One more coordinate block at the end of the UNEX content.
AppendUnexBlock ==
    /\ pout = NoResult /\ pgen.kind = "unex"
    /\ Len(pgen.blocks) < MaxUnexBlocks
    /\ \E n \in UnexNames, s \in UnexStyles :
          /\ pgen' = [pgen EXCEPT !.blocks = Append(@, [name |-> n, style |-> s])]
          /\ pinput' = UnexText([pgen EXCEPT !.blocks =
                                    Append(@, [name |-> n, style |-> s])])
    /\ UNCHANGED <<pfmt, pout, pblocks, overflow_checks, loadVars, testVars, pureVars>>

\* Cube contents built from a header, three grid counts and a number of
\* data values.
MaxData == 9
CubeAtomCounts == {"1", "0", "-1", "-2"}
CubeNvals == {"", "1", "2"}
CubeGridCounts == {"0", "1", "2", "-1"}
\* The first field of the line written after the atom lines as the
\* DSET_IDS line ("": no such line is written).
CubeDsetCounts == {"", "1", "2"}
CubeDataTokens == <<"0.5", "1", "2", "3", "6", "8", "0.96", "-1.5", "1e2", "5.", "0">>

\* The first k data values, two on a line.
RECURSIVE CubeDataLines(_, _)
CubeDataLines(from, k) ==
    IF from > k THEN <<>>
    ELSE IF from = k THEN <<L(<<CubeDataTokens[from]>>)>>
    ELSE <<IndL(<<CubeDataTokens[from], CubeDataTokens[from + 1]>>)>>
         \o CubeDataLines(from + 2, k)

CubeText(g) ==
    <<L(<<"cube">>), L(<<"density">>),
      L(<<g.natm, "0.0", "0.0", "0.0">> \o (IF g.nval = "" THEN <<>> ELSE <<g.nval>>)),
      L(<<g.n[1], "1.0", "0.0", "0.0">>), L(<<g.n[2], "0.0", "1.0", "0.0">>),
      L(<<g.n[3], "0.0", "0.0", "1.0">>)>>
    \o [a \in 1..Abs(ParseI32(g.natm).v) |-> L(<<"6", "6", "1.0", "0.0", "0.0">>)]
    \o (IF g.dset = "" THEN <<>> ELSE <<L(<<g.dset, "1">>)>>)
    \o CubeDataLines(1, g.ndata)

\* A cube content is built.
BuildCube ==
    /\ pfmt = 2 /\ pout = NoResult /\ pblocks = <<>> /\ pgen = NoGen
    /\ pinput = <<>>
    /\ \E natm \in CubeAtomCounts, nval \in CubeNvals, n \in [1..3 -> CubeGridCounts],
          dset \in CubeDsetCounts, ndata \in 0..MaxData :
          /\ pgen' = [kind |-> "cube", natm |-> natm, nval |-> nval, n |-> n,
                      dset |-> dset, ndata |-> ndata]
          /\ pinput' = CubeText([natm |-> natm, nval |-> nval, n |-> n,
                                 dset |-> dset, ndata |-> ndata])
    /\ UNCHANGED <<pfmt, pout, pblocks, overflow_checks, loadVars, testVars, pureVars>>

\* Cfour contents built from coordinate blocks.
MaxCfourBlocks == 2
CfourRowLines ==
    { L(<<"O", "8", "0.0", "0.0", "1.0">>), L(<<"X", "0", "0.0", "0.0", "0.0">>),
      L(<<"H", "1", "nan", "0.0", "inf">>),
      L(<<"H", "1", "0.0", "x", "0.5">>), L(<<"H", "zz", "0.0", "0.0", "0.5">>),
      L(<<"H", "1", "0.0", "0.0">>) }
CfourTables ==
    {<<>>} \cup {<<r>> : r \in CfourRowLines}
    \cup {<<r1, r2>> : r1 \in CfourRowLines, r2 \in CfourRowLines}

RECURSIVE CfourBlocksText(_)
CfourBlocksText(blocks) ==
    IF blocks = <<>> THEN <<>>
    ELSE <<IndL(CFOUR_MARKER), Dashes, L(<<"header">>)>> \o Head(blocks) \o <<Dashes>>
         \o CfourBlocksText(Tail(blocks))

CfourText(blocks) == <<L(<<"log">>), IndL(CFOUR_SIGNATURE)>> \o CfourBlocksText(blocks)

\* One more coordinate block at the end of a Cfour content.
AppendCfourBlock ==
    /\ pfmt = 4 /\ pout = NoResult /\ pblocks = <<>>
    /\ \/ pgen = NoGen /\ pinput = <<>>
       \/ pgen.kind = "cfour" /\ Len(pgen.blocks) < MaxCfourBlocks
    /\ \E t \in CfourTables :
          LET blocks == IF pgen = NoGen THEN <<t>> ELSE Append(pgen.blocks, t) IN
          /\ pgen' = [kind |-> "cfour", blocks |-> blocks]
          /\ pinput' = CfourText(blocks)
    /\ UNCHANGED <<pfmt, pout, pblocks, overflow_checks, loadVars, testVars, pureVars>>

\* MDL contents built from three header lines, a control line and atom
\* lines, the bond lines left out.
MaxMdlAtoms == 3
MdlHeaderLines == {L(<<>>), IndL(<<>>), L(<<"ethane">>), IndL(<<"my", "mol">>)}
MdlCounts == {"1", "2", "3"}
MdlSymbols == <<"C", "H", "O", "N", "He">>
MdlAtomLine(i) == IndL(<<"0.0", "1.0", "0.5", MdlSymbols[((i - 1) % Len(MdlSymbols)) + 1]>>)

MdlText(g) ==
    g.header \o <<IndL(<<g.count, "1", "0", "V2000">>)>>
    \o [i \in 1..g.atoms |-> MdlAtomLine(i)]

\* An MDL content is built.
BuildMdl ==
    /\ pfmt = 5 /\ pout = NoResult /\ pblocks = <<>> /\ pgen = NoGen
    /\ pinput = <<>>
    /\ \E header \in [1..3 -> MdlHeaderLines], count \in MdlCounts,
          atoms \in 0..MaxMdlAtoms :
          /\ pgen' = [kind |-> "mdl", header |-> header, count |-> count,
                      atoms |-> atoms]
          /\ pinput' = MdlText([header |-> header, count |-> count, atoms |-> atoms])
    /\ UNCHANGED <<pfmt, pout, pblocks, overflow_checks, loadVars, testVars, pureVars>>

\* parse_fn(&content, file_name)
CallParse ==
    /\ pout = NoResult
    /\ pout' = ParseFn(pfmt, pinput, load_file_name)
    /\ UNCHANGED <<pfmt, pinput, pblocks, pgen, overflow_checks, loadVars, testVars, pureVars>>

NextParse ==
    \/ AppendBlock \/ CutInput \/ EditInput \/ StartUnex \/ AppendUnexBlock \/ BuildCube
    \/ AppendCfourBlock \/ BuildMdl
    \/ CallParse

SpecParse == InitParse /\ [][NextParse]_vars

---------------------------------------------------------------------------
(* Parse calls of several threads of the host, each call advancing one    *)
(* iteration of its loop at a time on its own locals.                      *)

MaxCalls == 3
Threads == {1, 2}
CallFormats == {3, 4}
CallInputs(fmt) ==
    IF fmt = 3
    THEN { UnexText([version |-> "1.12-3-abc", rows |-> "good",
                     blocks |-> <<[name |-> "a", style |-> "1x"],
                                  [name |-> "a", style |-> "1x"]>>]),
           UnexText([version |-> "1.99-9999-b", rows |-> "good",
                     blocks |-> <<[name |-> "a", style |-> "1x"],
                                  [name |-> "b", style |-> "1x"]>>]),
           Unex2File, Garbage }
    ELSE { CfourFile,
           CfourText(<<<<L(<<"O", "8", "0.0", "0.0", "1.0">>)>>,
                       <<L(<<"X", "0", "0.0", "0.0", "0.0">>)>>>>) }

\* A thread enters parse(content, file_name).  unex::parse decodes the
\* version first and goes on with the loop of parse_unex1x; what it does
\* for another version is taken as one step.
BeginCall(fmt, input, mixed) ==
    IF fmt = 4
    THEN [phase |-> "running", fmt |-> fmt, input |-> input, mixed |-> mixed,
          loc |-> CfourLocals(load_file_name), out |-> NoResult]
    ELSE LET version == get_format_version(IF input = <<>> THEN L(<<>>) ELSE input[1]) IN
         IF version.some /\ version.v < 2000000
         THEN [phase |-> "running", fmt |-> fmt, input |-> input, mixed |-> mixed,
               loc |-> Unex1Locals(load_file_name), out |-> NoResult]
         ELSE [phase |-> "done", fmt |-> fmt, input |-> input, mixed |-> mixed,
               out |-> unex_parse(input, load_file_name)]

\* The next iteration of the loop of the call, or its return.
AdvanceCall(th) ==
    IF th.loc.i > Len(th.input)
    THEN [th EXCEPT !.phase = "done",
                    !.out = IF th.fmt = 4 THEN Ok(th.loc.res) ELSE Ok(th.loc.st.result)]
    ELSE [th EXCEPT !.loc = IF th.fmt = 4 THEN CfourStep(@, th.input)
                            ELSE Unex1Step(@, th.input)]

\* Another thread is inside a call and has gone through part of its input.
OtherUnderWay(t) ==
    \E u \in Threads \ {t} : threads[u].phase = "running" /\ threads[u].loc.i > 1

InitCalls ==
    /\ threads = [t \in Threads |-> IdleThread]
    /\ ncalls = 0
    /\ overflow_checks \in BOOLEAN
    /\ IdleLoad /\ IdleTest /\ IdleParse /\ IdleTrip

StartCall ==
    /\ ncalls < MaxCalls
    /\ \E t \in Threads, fmt \in CallFormats :
          /\ threads[t].phase # "running"
          /\ \E input \in CallInputs(fmt) :
                threads' = [threads EXCEPT ![t] = BeginCall(fmt, input, OtherUnderWay(t))]
    /\ ncalls' = ncalls + 1
    /\ UNCHANGED <<overflow_checks, loadVars, testVars, parseVars, tripVars>>

StepCall ==
    /\ \E t \in Threads :
          /\ threads[t].phase = "running"
          /\ threads' = [threads EXCEPT ![t] = AdvanceCall(@)]
    /\ UNCHANGED <<ncalls, overflow_checks, loadVars, testVars, parseVars, tripVars>>

NextCalls == StartCall \/ StepCall

SpecCalls == InitCalls /\ [][NextCalls]_vars

---------------------------------------------------------------------------
(* The AtomicCoordinates payload from a parser to a consumer:              *)
(* serde_json::to_vec in the parsers, serde_json::from_slice in            *)
(* CartesianEditor::render and the visualizer.                             *)

\* serde_json::from_slice::<AtomicCoordinates>(&data): the arrays of the
\* JSON text; a null where an f64 is expected is an error.  A finite f64
\* is written in the shortest form that reads back as the same value.
from_slice(data) ==
    IF data.json # "AtomicCoordinates"
    THEN Err("missing field atomic_num")
    ELSE IF \E a \in {data.x, data.y, data.z} : \E i \in 1..Len(a) : a[i] = JsonNull
    THEN Err("invalid type: null, expected f64")
    ELSE Ok([atomic_num |-> data.atomic_num, x |-> data.x, y |-> data.y, z |-> data.z])

\* Payloads of up to MaxAtoms atoms: any i32 as atomic number, and as
\* coordinates values that str::parse::<f64>() returns, as they are or
\* multiplied by BOHR2ANGSTROM.
MaxAtoms == 1
TripAtomicNumbers == {-1, 8, 2147483647}
TripCoordinates ==
    {ParseF64(t).v : t \in {"0.0", "-1.5", "nan", "inf"}} \cup {MulBohr(ParseF64("1e2").v)}
TripPayloads ==
    UNION { [atomic_num : [1..n -> TripAtomicNumbers], x : [1..n -> TripCoordinates],
             y : [1..n -> TripCoordinates], z : [1..n -> TripCoordinates]]
            : n \in 0..MaxAtoms }

InitTrip ==
    /\ payload \in TripPayloads
    /\ wire = NoResult
    /\ back = NoResult
    /\ overflow_checks \in BOOLEAN
    /\ IdleLoad /\ IdleTest /\ IdleParse /\ IdleCalls

\* data: serde_json::to_vec(&coords)
Serialize ==
    /\ wire = NoResult
    /\ wire' = Ok(SerCoords(payload.atomic_num, payload.x, payload.y, payload.z))
    /\ UNCHANGED <<payload, back, overflow_checks, loadVars, testVars, parseVars,
                   callVars>>

\* let coords: AtomicCoordinates = serde_json::from_slice(&data)
Deserialize ==
    /\ wire # NoResult /\ back = NoResult
    /\ back' = from_slice(wire.v)
    /\ UNCHANGED <<payload, wire, overflow_checks, loadVars, testVars, parseVars,
                   callVars>>

NextTrip == Serialize \/ Deserialize

SpecRoundTrip == InitTrip /\ [][NextTrip]_vars

---------------------------------------------------------------------------
(* Properties of the dispatcher, stated over the log of the calls that    *)
(* load made.                                                              *)

LogIdx == 1..Len(log)
IsTest(k) == log[k].op = "test"
IsParse(k) == log[k].op = "parse"
Failed(k) == ~log[k].out.ok /\ ~IsPanic(log[k].out)

\* The entries "{name}: {reason}" that the failed calls of a log produce,
\* in the order of the calls.
RECURSIVE ExpectedErrors(_)
ExpectedErrors(lg) ==
    IF lg = <<>> THEN <<>>
    ELSE LET h == lg[1]
         IN  IF ~h.out.ok /\ ~IsPanic(h.out)
             THEN <<PARSERS[h.fmt] \o ": " \o h.out.e>> \o ExpectedErrors(Tail(lg))
             ELSE ExpectedErrors(Tail(lg))

\* C1: load tries the formats in registration order, each recognizer at
\* most once; a parser runs only directly after the recognizer of its own
\* format returned true; the first parser that succeeds ends the dispatch
\* and its tree is the result of load.
C1_DispatchOrder ==
    /\ \A a, b \in LogIdx : (a < b /\ IsTest(a) /\ IsTest(b)) => log[a].fmt < log[b].fmt
    /\ \A a, b \in LogIdx : a < b => log[a].fmt <= log[b].fmt
    /\ \A k \in LogIdx : log[k].fmt \in 1..Len(PARSERS)
    /\ \A k \in LogIdx : IsTest(k) =>
          log[k].fmt = Cardinality({j \in 1..k : IsTest(j)})
    /\ \A k \in LogIdx : IsParse(k) =>
          /\ k > 1 /\ IsTest(k - 1)
          /\ log[k - 1].fmt = log[k].fmt
          /\ log[k - 1].out = Ok(TRUE)
    /\ \A k \in LogIdx : (IsParse(k) /\ log[k].out.ok) =>
          /\ k = Len(log)
          /\ pc = "done"
          /\ result = Ok(SerNode(log[k].out.v))
    /\ (pc = "done" /\ result.ok) =>
          /\ log # <<>>
          /\ IsParse(Len(log)) /\ log[Len(log)].out.ok

\* C1 witness: load returned the tree of the fifth format after the four
\* formats before it were tried in order.
C1_Witness ==
    /\ changes = 0
    /\ pc = "done" /\ result.ok
    /\ log[Len(log)].fmt = 5
    /\ Cardinality({k \in LogIdx : IsTest(k)}) = 5

\* C2: a parser that fails after its recognizer accepted adds one entry to
\* the error list and the dispatch goes on with the next registered
\* format; when a later format parses the file, load returns that tree,
\* which holds nothing of the errors recorded before.
C2_FailureThenContinue ==
    /\ \A k \in LogIdx : (IsParse(k) /\ Failed(k)) =>
          /\ Len(ExpectedErrors(SubSeq(log, 1, k)))
               = Len(ExpectedErrors(SubSeq(log, 1, k - 1))) + 1
          /\ Len(errors) >= Len(ExpectedErrors(SubSeq(log, 1, k)))
          /\ errors[Len(ExpectedErrors(SubSeq(log, 1, k)))]
               = PARSERS[log[k].fmt] \o ": " \o log[k].out.e
          /\ IF k < Len(log)
             THEN IsTest(k + 1) /\ log[k + 1].fmt = log[k].fmt + 1
             ELSE pc \in {"test", "done"} /\ idx = log[k].fmt + 1
          /\ (k = Len(log) /\ pc = "done") => idx > Len(PARSERS)
    /\ (pc = "done" /\ result.ok) =>
          result = Ok(SerNode(ParseFn(log[Len(log)].fmt, firstRead, load_file_name).v))

\* C2 witness: a format failed in its parser and a later format gave the
\* tree that load returned.
C2_Witness ==
    /\ changes = 0
    /\ pc = "done" /\ result.ok
    /\ \E k \in LogIdx : IsParse(k) /\ Failed(k) /\ k < Len(log)
    /\ errors # <<>>

\* The formats that the error list names: those with an entry
\* "{name}: {reason}" for a reason that some call reported.
NamedFormats ==
    {i \in 1..Len(PARSERS) :
        \E k \in 1..Len(errors) : \E j \in LogIdx :
            ~log[j].out.ok /\ errors[k] = PARSERS[i] \o ": " \o log[j].out.e}

\* C3 (as stated): when every recognizer returned false, the error of load
\* names every registered format.
C3_ZeroMatchesNamesAllFormats ==
    (/\ pc = "done"
     /\ Len(log) = Len(PARSERS)
     /\ \A k \in LogIdx : IsTest(k) /\ log[k].out = Ok(FALSE))
    => /\ result = NoSuitableParser(errors)
       /\ NamedFormats = 1..Len(PARSERS)

\* C4: when load fails after the dispatch, its error is the message built
\* from the error list, and the list holds exactly one entry
\* "{name}: {reason}" for every format whose call failed, in registration
\* order, and no entry for a format whose recognizer returned false.
C4_AggregateError ==
    /\ errors = ExpectedErrors(log)
    /\ (pc = "done" /\ ~result.ok /\ opens > 1) =>
          /\ result = NoSuitableParser(ExpectedErrors(log))
          /\ \A i \in 1..Len(PARSERS) :
                LET calls == {k \in LogIdx : log[k].fmt = i}
                    failed == {k \in calls : Failed(k)}
                IN  /\ Cardinality(failed) <= 1
                    /\ (\E k \in calls : IsParse(k)) => Cardinality(failed) = 1
                    /\ (\A k \in calls : log[k].out = Ok(FALSE)) => failed = {}
          /\ Len(errors) = Cardinality({k \in LogIdx : Failed(k)})
          /\ Len(log) >= Len(PARSERS)

\* C4 witness: load failed after two formats accepted the file and failed
\* to parse it, and the other three said no.
C4_Witness ==
    /\ changes = 0
    /\ pc = "done" /\ ~result.ok
    /\ Cardinality({k \in LogIdx : IsParse(k) /\ Failed(k)}) = 2
    /\ Cardinality({k \in LogIdx : IsTest(k) /\ log[k].out = Ok(FALSE)}) = 3
    /\ Len(errors) = 2

\* C5 (as stated): an I/O error, of the initial read or of a recognizer,
\* ends load at once with an error.
C5_IoErrorAlwaysFatal ==
    /\ \A k \in LogIdx : (IsTest(k) /\ ~log[k].out.ok) =>
          /\ k = Len(log)
          /\ pc = "done"
          /\ ~result.ok
    /\ (pc = "done" /\ log = <<>>) => ~result.ok

\* C6 (as stated): load opens the file once, and every recognizer verdict
\* is the verdict on what that one read returned.
C6_OpenedOnce ==
    /\ opens <= 1
    /\ \A k \in LogIdx : IsTest(k) => log[k].out = TestFn(log[k].fmt, File(firstRead))

\* C6 amended: the whole file is read once and every parser is given what
\* that read returned, whatever happens to the file later; every
\* recognizer that load calls opens the file once more.
C6_ParsersUseFirstRead ==
    /\ content = firstRead
    /\ \A k \in LogIdx : IsParse(k) =>
          log[k].out = ParseFn(log[k].fmt, firstRead, load_file_name)
    /\ opens = (IF pc = "start" THEN 0 ELSE 1)
                 + Cardinality({k \in LogIdx : IsTest(k)})

\* C6 witness: a parser ran after the file was changed on disk.
C6_Witness ==
    /\ changes > 0
    /\ disk.lines # firstRead
    /\ log # <<>> /\ IsParse(Len(log))
    /\ opens > 2

---------------------------------------------------------------------------
(* Properties of the recognizers. *)

\* The part of a file that a reader of n lines can see.
FirstLines(file, n) ==
    [exists |-> file.exists,
     bad |-> IF file.bad <= n THEN file.bad ELSE 0,
     lines |-> Take(file.lines, n)]

Readable(file) == file.exists /\ file.bad = 0

LinesNeeded ==
    <<XYZ_LINES_NEEDED, CUBE_LINES_NEEDED, UNEX_LINES_NEEDED, CFOUR_LINES_NEEDED,
      MDL_LINES_NEEDED>>

\* C7: two files that agree on the first B lines, B the bound of the format,
\* get the same verdict from that format's recognizer, and a second call on
\* the unchanged file returns what the first call returned.
C7_VerdictFromFirstLines ==
    tfmt # 0 =>
       /\ FirstLines(fileA, ValidationLines[tfmt]) = FirstLines(fileB, ValidationLines[tfmt])
             => verdictA = verdictB
       /\ verdictAgain # NoResult => verdictAgain = verdictA

\* C7 witness: the second file has the Cfour signature on the line after
\* the bound, and the Cfour recognizer said no to both files, twice to the
\* first.
C7_Witness ==
    /\ tfmt = 4
    /\ fileA # fileB
    /\ FirstLines(fileA, ValidationLines[4]) = FirstLines(fileB, ValidationLines[4])
    /\ Len(fileB.lines) = CFOUR_MAX_VALIDATION_LINES + 1
    /\ ContainsPhrase(fileB.lines[CFOUR_MAX_VALIDATION_LINES + 1], CFOUR_SIGNATURE)
    /\ verdictA = Ok(FALSE) /\ verdictB = Ok(FALSE) /\ verdictAgain = Ok(FALSE)

\* C8 (as stated): a readable file with fewer lines than the bound of a
\* recognizer gets the verdict false from it.
C8_ShortFileIsRejected ==
    (tfmt # 0 /\ Readable(fileB) /\ Len(fileB.lines) < ValidationLines[tfmt])
        => verdictB = Ok(FALSE)

\* C8 amended: a readable file with fewer lines than the bound of a
\* recognizer never gets an error from it, and gets the verdict false when
\* it has fewer lines than the recognizer needs to decide (XYZ 1, cube 6,
\* UNEX 1, Cfour 2, MDL 4).
C8_ShortFileNoError ==
    (tfmt # 0 /\ Readable(fileB) /\ Len(fileB.lines) < ValidationLines[tfmt])
        => /\ verdictB.ok
           /\ Len(fileB.lines) < LinesNeeded[tfmt] => verdictB = Ok(FALSE)

\* C8 witness: a cube file cut to five lines was rejected by the cube
\* recognizer without an error.
C8_Witness ==
    /\ tfmt = 2
    /\ Readable(fileB)
    /\ fileB.lines = Take(CubeFile, CUBE_LINES_NEEDED - 1)
    /\ verdictB = Ok(FALSE)

\* A short readable file that its recognizer accepts: the water of four
\* lines and the XYZ recognizer.
C8_ShortFileAccepted ==
    /\ tfmt = 1
    /\ Readable(fileA)
    /\ Len(fileA.lines) < XYZ_MAX_VALIDATION_LINES
    /\ verdictA = Ok(TRUE)

---------------------------------------------------------------------------
(* Properties of the parsers. *)

\* The 0-based number of the comment line of block i.
RECURSIVE CommentLineNumber(_, _)
CommentLineNumber(blocks, i) ==
    IF i = 1 THEN 1 ELSE Len(BlockText(blocks[1])) + CommentLineNumber(Tail(blocks), i - 1)

AtomicNumberOf(line) ==
    IF ParseI32(line.toks[1]).some THEN ParseI32(line.toks[1]).v
    ELSE get_element_by_symbol(line.toks[1]).v

XyzInputOfBlocks ==
    /\ pfmt = 1 /\ pout # NoResult
    /\ pinput = XyzText(pblocks)
    /\ \A i \in 1..Len(pblocks) : WellFormedBlock(pblocks[i])

\* What C9 says of the children but for their names.
XyzChildrenOfBlocks ==
    /\ pout.ok
    /\ Len(pout.v.children) = Len(pblocks)
    /\ \A i \in 1..Len(pblocks) :
          LET child == pout.v.children[i]
              n == ParseUsize(pblocks[i].count).v
          IN  /\ child.type = TYPE_COORDS
              /\ child.children = <<>>
              /\ Len(child.data.atomic_num) = n
              /\ Len(child.data.x) = n /\ Len(child.data.y) = n /\ Len(child.data.z) = n
              /\ \A j \in 1..n : child.data.atomic_num[j] = AtomicNumberOf(pblocks[i].cards[j])
    /\ pblocks = <<[count |-> "2", comment |-> L(<<"water">>), cards |-> <<CardO, CardH>>]>>
          => pout.v.children[1].data.atomic_num = <<8, 1>>

\* C9 (as stated): for an XYZ input of k well-formed blocks the parser
\* returns a root with k coordinate children in file order, each with four
\* arrays of length N_i and named by the trimmed comment line of its block.
C9_ChildNamedByComment ==
    XyzInputOfBlocks =>
       /\ XyzChildrenOfBlocks
       /\ \A i \in 1..Len(pblocks) :
             pout.v.children[i].name = TrimToString(pblocks[i].comment)

\* C9 amended: for an XYZ input of k well-formed blocks the parser returns
\* a root with k coordinate children in file order, each with four arrays
\* of length N_i; a child is named by the trimmed comment line of its
\* block, or "Set@line={n}" when that line is empty or blank, n being the
\* 0-based number of the line; a water block of O and H gives the atomic
\* numbers [8, 1].
C9_ChildPerBlock ==
    XyzInputOfBlocks =>
       /\ XyzChildrenOfBlocks
       /\ \A i \in 1..Len(pblocks) :
             pout.v.children[i].name =
                IF TrimToString(pblocks[i].comment) = ""
                THEN "Set@line=" \o ToString(CommentLineNumber(pblocks, i))
                ELSE TrimToString(pblocks[i].comment)

\* C9 witness: two well-formed blocks, the second with a blank comment
\* line, were parsed into two children.
C9_Witness ==
    /\ XyzInputOfBlocks
    /\ Len(pblocks) = 2
    /\ TrimToString(pblocks[2].comment) = ""
    /\ pblocks[1].cards = <<CardO, CardH>>
    /\ pout.ok
    /\ Len(pout.v.children) = 2
    /\ pout.v.children[1].data.atomic_num = <<8, 1>>

\* The nodes of a tree of depth three.
TreeNodes(root) ==
    {root}
    \cup {root.children[i] : i \in 1..Len(root.children)}
    \cup UNION {{root.children[i].children[j] : j \in 1..Len(root.children[i].children)} :
                  i \in 1..Len(root.children)}

IsCoords(node) == node.type = TYPE_COORDS \/ node.data.json = "AtomicCoordinates"

\* C10: in every atomic_coordinates payload of a tree that a parser
\* returned, atomic_num, x, y and z have the same length.
C10_EqualLengths ==
    (pout # NoResult /\ pout.ok) =>
        \A node \in TreeNodes(pout.v) :
            IsCoords(node) =>
               /\ node.data.json = "AtomicCoordinates"
               /\ Len(node.data.x) = Len(node.data.atomic_num)
               /\ Len(node.data.y) = Len(node.data.atomic_num)
               /\ Len(node.data.z) = Len(node.data.atomic_num)

\* C10 witness: a parser other than the XYZ parser returned a tree that
\* holds coordinates of two atoms.
C10_Witness ==
    /\ pout # NoResult /\ pout.ok
    /\ pfmt # 1
    /\ \E node \in TreeNodes(pout.v) :
          IsCoords(node) /\ Len(node.data.atomic_num) = 2 /\ Len(node.data.z) = 2

\* ---- errors and line numbers ---------------------------------------------

\* The ways the parsers' messages introduce and close a line number.
LinePrefixes ==
    { "Invalid line ", "Invalid number of atoms 0 at line ",
      "Invalid atom card at line ", "Invalid atom at line ",
      "Invalid coordinate value(s) at line ", "Invalid control line ",
      "Invalid number of atoms 0 defined in line ",
      "Invalid atom coordinate value(s) at line ", "Invalid atom symbol at line ",
      "Invalid grid line at line ", "Invalid grid count at line ",
      "Invalid grid vector value at line ", "Invalid header at line ",
      "Invalid number of atoms at line ", "Invalid origin coordinate at line ",
      "Invalid atom data at line ", "Invalid atomic number at line ",
      "Invalid x coordinate at line ", "Invalid y coordinate at line ",
      "Invalid z coordinate at line ", "Invalid volumetric data value at line " }
    \cup { "Invalid number of bonds " \o ToString(NegTable[t]) \o " defined in line "
              : t \in DOMAIN NegTable }
    \cup { "Unsupported number of identifiers per voxel " \o ToString(k) \o " at line "
              : k \in {UsizeTable[t] : t \in DOMAIN UsizeTable}
                      \cup {NegTable[t] : t \in DOMAIN NegTable} }

LineSuffixes ==
    { ".", ", expected number of atoms.", ", expected number of bonds.",
      ", expected 4 values.", ", expected 5 values.", ", expected at least 4 values." }

\* The message names the 1-based number of a line of the content (or of
\* the line that is missing after its last one).
CarriesLineNumber(msg, lines) ==
    \E n \in 1..(Len(lines) + 1), pre \in LinePrefixes, post \in LineSuffixes :
        msg = pre \o ToString(n) \o post

\* The parser returned an error value.
ParseError == pout # NoResult /\ ~pout.ok /\ ~IsPanic(pout)

\* C11 (as stated): every error a parser returns names the 1-based number
\* of a line of the content, for every parser and every kind of failure.
C11_ErrorCarriesLine ==
    ParseError => CarriesLineNumber(pout.e, pinput)

\* C12 (as stated): no parse call panics; each returns a tree or an error
\* value, whatever the content.
C12_NoPanic ==
    pout # NoResult => ~IsPanic(pout)

\* C12, the version fold: a UNEX content whose version line the pattern
\* admits is never answered by a panic.
C12_NoPanicInFold ==
    (pout # NoResult /\ pgen.kind = "unex") => ~IsPanic(pout)

\* ---- Gaussian cube --------------------------------------------------------

\* A cube content was built and the cube parser was applied.
CubeBuiltAndParsed == pgen.kind = "cube" /\ pfmt = 2 /\ pout # NoResult

\* The same, the content having a DSET_IDS line `1 1` exactly when its atom
\* count is negative.
CubeParsed ==
    /\ CubeBuiltAndParsed
    /\ pgen.dset = (IF ParseI32(pgen.natm).v < 0 THEN "1" ELSE "")

\* C13 (as stated): a cube content whose header declares two values per
\* voxel is rejected with an error, whatever the atom count; no tree is
\* returned for it.
C13_NvalRejected ==
    (CubeParsed /\ pgen.nval = "2") => ParseError

\* The grid counts of the built cube and their product.
CubeN(k) == ParseI32(pgen.n[k]).v
CubePoints == CubeN(1) * CubeN(2) * CubeN(3)

\* The header of the built cube is one the parser goes on from.
CubeHeaderAccepted == ~(ParseI32(pgen.natm).v > 0 /\ pgen.nval = "2")

IsMismatch(r) ==
    ~r.ok /\ \E expected \in -8..8, found \in 0..(MaxData + 1) :
        r.e = "Mismatch in volumetric data: expected " \o ToString(expected)
              \o " points, found " \o ToString(found) \o "."

\* C14 (as stated): a cube content with valid lines before the data and
\* only valid numbers as data, whose number of data values differs from
\* n1*n2*n3, gets the size-mismatch error; no tree is returned for it.
C14_MismatchIsError ==
    (CubeParsed /\ CubeHeaderAccepted /\ pgen.ndata # CubePoints) => IsMismatch(pout)

\* The same for the contents whose grid counts are not negative.
CubeMismatchNonNegative ==
    (CubeParsed /\ CubeHeaderAccepted /\ pgen.ndata # CubePoints
       /\ \A k \in 1..3 : CubeN(k) >= 0) => IsMismatch(pout)

\* A tree is returned only with as many data values as n1*n2*n3.
CubeTreeHasAllData ==
    (CubeParsed /\ pout.ok) =>
        /\ pgen.ndata = CubePoints
        /\ Len(pout.v.data.cube_data) = CubeN(1)
        /\ \A i \in 1..CubeN(1) :
              /\ Len(pout.v.data.cube_data[i]) = CubeN(2)
              /\ \A j \in 1..CubeN(2) : Len(pout.v.data.cube_data[i][j]) = CubeN(3)

\* ---- silent recovery ------------------------------------------------------

\* A Cfour row of five tokens whose atomic number or a coordinate does not
\* parse.
CfourRowFails(row) ==
    /\ Len(row.toks) >= 5
    /\ \/ ~ParseI32(row.toks[2]).some
       \/ \E k \in 3..5 : ~ParseF64(row.toks[k]).some

\* The content was built as a Cfour log with such a row in a table.
CfourWithFailingRow ==
    /\ pgen.kind = "cfour"
    /\ \E b \in 1..Len(pgen.blocks) : \E r \in 1..Len(pgen.blocks[b]) :
          CfourRowFails(pgen.blocks[b][r])

\* The content is a sample of the parser's own format with one table row
\* replaced by a row whose y coordinate does not parse.
SampleWithFailingRow ==
    \/ pfmt = 1 /\ \E k \in 3..4 :
          pinput = [WaterXyz EXCEPT ![k] = L(<<"O", "0.0", "x", "0.0">>)]
    \/ pfmt = 2 /\ pinput = [CubeFile EXCEPT ![7] = L(<<"6", "6", "1.0", "x", "0.0">>)]
    \/ pfmt = 3 /\ pinput = [Unex2File EXCEPT ![7] = L(<<"O", "0.0", "x", "0.0">>)]
    \/ pfmt = 5 /\ \E k \in 5..6 :
          pinput = [MolFile EXCEPT ![k] = IndL(<<"0.0", "0.0", "x", "H">>)]

\* C15 (as stated): outside the UNEX tables of the UNEX parser, a table
\* row with a required numeric token that does not parse makes the parser
\* return an error; no tree is returned with the row dropped or with a
\* default in place of the token.
C15_NoSilentRecovery ==
    (pout # NoResult /\ (SampleWithFailingRow \/ (pfmt = 4 /\ CfourWithFailingRow)))
        => ParseError

\* The same without the Cfour parser.
FailingRowIsErrorButCfour ==
    (pout # NoResult /\ SampleWithFailingRow) => ParseError

\* ---- MDL MolV2000 ----------------------------------------------------------

\* The molecule title of a built MDL content: the first of the three
\* header lines that is not empty once trimmed, or "".
MdlTitleOf(header) ==
    IF TrimToString(header[1]) # "" THEN TrimToString(header[1])
    ELSE IF TrimToString(header[2]) # "" THEN TrimToString(header[2])
    ELSE TrimToString(header[3])

\* The tree has one coordinate child, with the atoms the control line of
\* the built content declares, named by the title or by the file name.
MdlOneChild ==
    /\ Len(pout.v.children) = 1
    /\ pout.v.children[1].type = TYPE_COORDS
    /\ Len(pout.v.children[1].data.atomic_num) = ParseUsize(pgen.count).v
    /\ \A i \in 1..ParseUsize(pgen.count).v :
          pout.v.children[1].data.atomic_num[i]
             = get_element_by_symbol(MdlAtomLine(i).toks[4]).v
    /\ pout.v.children[1].name =
          IF MdlTitleOf(pgen.header) = "" THEN load_file_name
          ELSE MdlTitleOf(pgen.header)

\* C16 (as stated): every successful MDL parse returns a tree with exactly
\* one atomic_coordinates child, with the declared number of atoms, named
\* by the title (the first non-empty of lines 1-3, trimmed) or by the file
\* name when the title is blank.
C16_ExactlyOneChild ==
    (pfmt = 5 /\ pgen.kind = "mdl" /\ pout.ok) => MdlOneChild

\* The same for the contents that hold all the atom lines the control line
\* declares; the others get a tree without any child.
MdlChildWhenComplete ==
    (pfmt = 5 /\ pgen.kind = "mdl" /\ pout # NoResult) =>
        /\ pout.ok
        /\ IF pgen.atoms >= ParseUsize(pgen.count).v THEN MdlOneChild
           ELSE pout.v.children = <<>>

\* ---- UNEX -------------------------------------------------------------------

\* The content was built as a UNEX file and the UNEX parser was applied.
UnexParsed == pgen.kind = "unex" /\ pfmt = 3 /\ pout # NoResult

\* major * 1_000_000 + minor * 10_000 + patch as a number of millions and
\* a rest, of the version token of the built content.
UnexVersion == VersionTable[pgen.version]
DecodedBelowTwoMillion ==
    UnexVersion[1] + (UnexVersion[2] * 10000 + UnexVersion[3]) \div 1000000 < 2

\* The sub-parser that was applied, seen by the blocks it found: with one
\* block in the content, the 1.x sub-parser finds a block of style 1x and
\* no other, the 2.x sub-parser finds the blocks of the 2x styles.
FoundBlocks == pout.ok /\ pout.v.children # <<>>

\* C17 (as stated): the version line decodes to major*1_000_000 +
\* minor*10_000 + patch, and the 1.x sub-parser is applied iff that value
\* is below 2_000_000; 2_000_000 itself goes to the 2.x sub-parser.
C17_SubParserByVersion ==
    (UnexParsed /\ Len(pgen.blocks) = 1 /\ pgen.rows = "good") =>
        /\ pout.ok
        /\ FoundBlocks <=> (DecodedBelowTwoMillion <=> pgen.blocks[1].style = "1x")
        /\ pgen.version = "1.12-3-abc" => get_format_version(pinput[1]) = Some(1120003)
        /\ pgen.version = "2.0-0-x" => get_format_version(pinput[1]) = Some(2000000)

\* The same for the versions whose sum fits in an i32.
SubParserByVersionInRange ==
    (UnexParsed /\ Len(pgen.blocks) = 1 /\ pgen.rows = "good"
       /\ ~FoldOverflows(UnexVersion)) =>
        /\ pout.ok
        /\ FoundBlocks <=> (DecodedBelowTwoMillion <=> pgen.blocks[1].style = "1x")
        /\ get_format_version(pinput[1])
             = Some(1000000 * UnexVersion[1] + 10000 * UnexVersion[2] + UnexVersion[3])
        /\ pgen.version = "1.12-3-abc" => get_format_version(pinput[1]) = Some(1120003)
        /\ pgen.version = "2.0-0-x" => get_format_version(pinput[1]) = Some(2000000)

\* The names of the blocks of the built content that the applied
\* sub-parser finds, in file order.
UnexFoundNames ==
    LET wanted == IF get_format_version(pinput[1]).v < 2000000 THEN {"1x"}
                  ELSE {"2x-mol", "2x-unex", "2x-none"}
    IN  SelectSeq([i \in 1..Len(pgen.blocks) |->
                     IF pgen.blocks[i].style \in wanted THEN pgen.blocks[i].name
                     ELSE ""],
                  LAMBDA n : n # "")

\* The names of a sequence in order of first occurrence.
RECURSIVE FirstOccurrences(_)
FirstOccurrences(names) ==
    IF names = <<>> THEN <<>>
    ELSE LET front == FirstOccurrences(SubSeq(names, 1, Len(names) - 1))
             last == names[Len(names)]
         IN IF \E i \in 1..Len(front) : front[i] = last THEN front
            ELSE Append(front, last)

\* How many times a name occurs in a sequence.
Occurrences(names, n) == Cardinality({i \in 1..Len(names) : names[i] = n})

\* C18: in a tree returned by the UNEX parsers the grouping nodes have
\* pairwise distinct names in order of first occurrence, every block hangs
\* under the node of its molecule, and the children of a grouping node are
\* named Set#1 .. Set#k, k being the number of blocks of that molecule.
C18_GroupingAndCounters ==
    (UnexParsed /\ pout.ok) =>
        LET groups == pout.v.children
            names == FirstOccurrences(UnexFoundNames)
        IN  /\ Len(groups) = Len(names)
            /\ \A g \in 1..Len(groups) :
                  /\ groups[g].name = names[g]
                  /\ groups[g].type = TYPE_MOLECULE
                  /\ Len(groups[g].children) = Occurrences(UnexFoundNames, names[g])
                  /\ \A k \in 1..Len(groups[g].children) :
                        /\ groups[g].children[k].name = "Set#" \o ToString(k)
                        /\ IsCoords(groups[g].children[k])
            /\ \A g, h \in 1..Len(groups) : groups[g].name = groups[h].name => g = h

\* C18 witness: a 2.x content with the blocks of molecules a, b, a was
\* parsed into the groups a with Set#1, Set#2 and b with Set#1.
C18_Witness ==
    /\ UnexParsed /\ pout.ok
    /\ pgen.version = "2.0-0-x"
    /\ Len(pgen.blocks) = 3
    /\ pgen.blocks[1].name = "a" /\ pgen.blocks[2].name = "b" /\ pgen.blocks[3].name = "a"
    /\ pgen.blocks[1].style = "2x-mol" /\ pgen.blocks[3].style = "2x-unex"
    /\ Len(pout.v.children) = 2
    /\ pout.v.children[1].name = "a" /\ Len(pout.v.children[1].children) = 2
    /\ pout.v.children[1].children[2].name = "Set#2"
    /\ pout.v.children[2].name = "b" /\ Len(pout.v.children[2].children) = 1
    /\ pout.v.children[2].children[1].name = "Set#1"

\* ---- round trip -------------------------------------------------------------

\* C19 (as stated): an AtomicCoordinates payload, serialized as the parsers
\* do and deserialized as the consumers do, comes back: from_slice succeeds
\* and returns the same four arrays, for finite and non-finite coordinates.
C19_RoundTrip ==
    back # NoResult => back = Ok(payload)

\* The same for the payloads whose coordinates are all finite.
RoundTripOfFinite ==
    (back # NoResult
       /\ \A a \in {payload.x, payload.y, payload.z} :
             \A i \in 1..Len(a) : a[i].kind = "fin")
        => back = Ok(payload)

\* Reached in SpecParse: a parser (here cfour::parse on a row that reads
\* `H 1 nan 0.0 inf`) returned a tree with a coordinate payload that the
\* consumers reject.
ParserEmitsNonFinite ==
    /\ pout # NoResult /\ pout.ok
    /\ \E node \in TreeNodes(pout.v) :
          /\ IsCoords(node)
          /\ Len(node.data.x) = 1
          /\ node.data.x[1] = JsonNull
          /\ ~from_slice(node.data).ok

\* ---- concurrent calls -----------------------------------------------------

\* C20: a parse call returns what the same call returns when it runs
\* alone, whichever calls ran before it or run interleaved with it; two
\* calls with the same arguments return the same.
C20_CallsIndependent ==
    \A t \in DOMAIN threads :
        threads[t].phase = "done" =>
            /\ threads[t].out = ParseFn(threads[t].fmt, threads[t].input, load_file_name)
            /\ \A u \in DOMAIN threads :
                  (threads[u].phase = "done" /\ threads[u].fmt = threads[t].fmt
                     /\ threads[u].input = threads[t].input)
                      => threads[u].out = threads[t].out

\* C20 witness: two threads parsed the same Cfour log of two blocks, the
\* second call started while the first was under way, and both returned
\* the children Set#1 and Set#2.
C20_Witness ==
    /\ threads # <<>>
    /\ \A t \in Threads :
          /\ threads[t].phase = "done" /\ threads[t].fmt = 4
          /\ threads[t].out.ok
          /\ Len(threads[t].out.v.children) = 2
          /\ threads[t].out.v.children[1].name = "Set#1"
          /\ threads[t].out.v.children[2].name = "Set#2"
    /\ threads[1].input = threads[2].input
    /\ threads[2].mixed
    /\ ncalls = 2

---------------------------------------------------------------------------
(* Binary files. *)

\* The file load began with holds bytes that are not valid UTF-8, and it
\* was not changed while load ran.
BinaryLoaded == changes = 0 /\ disk.exists /\ disk.bad > 0

\* C21 (as stated): for a file that is not valid UTF-8, load consults the
\* recognizers, none accepts, and load returns the aggregate error "No
\* suitable parser found ..."; it does not panic.
C21_BinaryIsUnrecognized ==
    (pc \in {"done", "panicked"} /\ BinaryLoaded) =>
        /\ pc = "done"
        /\ Len(log) = Len(PARSERS)
        /\ \A k \in LogIdx : IsTest(k) /\ log[k].fmt = k /\ log[k].out # Ok(TRUE)
        /\ result = NoSuitableParser(errors)

\* What load does with such a file: the initial read fails, load returns
\* that error at once and no recognizer is called.
BinaryFailsTheRead ==
    (pc # "start" /\ BinaryLoaded) =>
        /\ pc = "done"
        /\ log = <<>>
        /\ result = Err("Failed to read file: " \o NotUtf8)

---------------------------------------------------------------------------
(* The end of the content inside an XYZ block. *)

\* The state of the XYZ state machine when the loop over the lines ends.
XyzEndState(lines) == XyzLoop(XyzInitState(load_file_name), lines, 1, load_file_name).state

\* The content is a sequence of well-formed XYZ blocks that ends inside the
\* last one (after its count line, or after fewer cards than it declares).
XyzCutInput ==
    /\ pfmt = 1 /\ pout # NoResult
    /\ pgen.kind = "cut"
    /\ \A i \in 1..Len(pblocks) : WellFormedBlock(pblocks[i])

\* C22 (as stated): xyz::parse returns a tree only when the state machine
\* is in state Init at the end of the content; a content that ends in
\* state Comment or Cards gives an error.
C22_SuccessOnlyFromInit ==
    (pfmt = 1 /\ pout # NoResult) =>
        /\ pout.ok => XyzEndState(pinput) = "Init"
        /\ XyzCutInput => ~pout.ok

\* What xyz::parse does with such a content: it returns the tree of the
\* complete blocks and leaves the incomplete one out.
XyzCutOmitsBlock ==
    XyzCutInput =>
        /\ pout.ok
        /\ XyzEndState(pinput) = (IF pgen.keep = 1 THEN "Comment" ELSE "Cards")
        /\ Len(pout.v.children) = Len(pblocks) - 1

---------------------------------------------------------------------------
(* The sub-format of a UNEX 2.x coordinate block. *)

\* The content was built as a UNEX file, its version line decodes to
\* 2_000_000 or more and unex::parse, hence the 2.x sub-parser, was applied.
Unex2Applied ==
    /\ UnexParsed
    /\ get_format_version(pinput[1]).some
    /\ get_format_version(pinput[1]).v >= 2000000

\* How many atomic_coordinates nodes hang under the grouping nodes.
RECURSIVE SetCount(_)
SetCount(groups) ==
    IF groups = <<>> THEN 0 ELSE Len(Head(groups).children) + SetCount(Tail(groups))

\* How many blocks of the built content have one of the styles.
BlocksOfStyle(styles) ==
    Cardinality({i \in 1..Len(pgen.blocks) : pgen.blocks[i].style \in styles})

\* C23 (as stated): every atomic_coordinates node of the 2.x sub-parser
\* comes from a block whose sub-header declares the sub-format UNEX or MOL,
\* none from a block whose sub-format is undetermined; a declared
\* sub-format other than UNEX and MOL is an error.
C23_SubFormatDetermined ==
    /\ (Unex2Applied /\ pout.ok) =>
          SetCount(pout.v.children) = BlocksOfStyle({"2x-mol", "2x-unex"})
    /\ (pfmt = 3 /\ pinput = Unex2BadFormat /\ pout # NoResult) =>
          pout = Err("Invalid or unknown XYZ format XYZ")

\* What the 2.x sub-parser does: a block without a Format line gives a
\* node as well, with no atoms, whatever rows its table has.
UndeterminedBlockGivesEmptySet ==
    (Unex2Applied /\ pout.ok) =>
        /\ SetCount(pout.v.children) = BlocksOfStyle({"2x-mol", "2x-unex", "2x-none"})
        /\ (Len(pgen.blocks) = 1 /\ pgen.blocks[1].style = "2x-none") =>
              pout.v.children[1].children[1].data = SerCoords(<<>>, <<>>, <<>>, <<>>)
        /\ (pfmt = 3 /\ pinput = Unex2BadFormat /\ pout # NoResult) =>
              pout = Err("Invalid or unknown XYZ format XYZ")

---------------------------------------------------------------------------
(* The order of the folded UNEX versions. *)

\* (major, minor, patch) compared lexicographically.
LexLess(a, b) ==
    \/ a[1] < b[1]
    \/ a[1] = b[1] /\ a[2] < b[2]
    \/ a[1] = b[1] /\ a[2] = b[2] /\ a[3] < b[3]

\* What get_format_version returns for the version line of token w.
DecodedVersion(w) == get_format_version(L(<<"UNEX", w>>))

\* The content has one block with rows that parse.
UnexOneGoodBlock == UnexParsed /\ Len(pgen.blocks) = 1 /\ pgen.rows = "good"

\* C24 (as stated): the decoded integers of any two version lines are
\* ordered as their (major, minor, patch) are, and unex::parse applies the
\* 1.x sub-parser exactly when major < 2, in 32-bit signed arithmetic.
C24_FoldIsComparable ==
    UnexOneGoodBlock =>
        /\ \A w \in DOMAIN VersionTable :
              /\ DecodedVersion(pgen.version).some /\ DecodedVersion(w).some
              /\ DecodedVersion(pgen.version).v < DecodedVersion(w).v
                    <=> LexLess(UnexVersion, VersionTable[w])
        /\ pout.ok
        /\ FoundBlocks <=> (UnexVersion[1] < 2 <=> pgen.blocks[1].style = "1x")

\* A version whose minor is below 100 and whose patch is below 10_000, so
\* that the three fields do not run into each other, and whose sum fits.
FieldsInRange(c) == c[2] < 100 /\ c[3] < 10000 /\ ~FoldOverflows(c)

\* The same for the versions with fields in range.
FoldComparableInRange ==
    (UnexOneGoodBlock /\ FieldsInRange(UnexVersion)) =>
        /\ \A w \in DOMAIN VersionTable : FieldsInRange(VersionTable[w]) =>
              /\ DecodedVersion(pgen.version).some /\ DecodedVersion(w).some
              /\ DecodedVersion(pgen.version).v < DecodedVersion(w).v
                    <=> LexLess(UnexVersion, VersionTable[w])
        /\ pout.ok
        /\ FoundBlocks <=> (UnexVersion[1] < 2 <=> pgen.blocks[1].style = "1x")

\* A version with major 1 and minor 100 decodes to 2_000_000, as 2.0-0
\* does, and goes to the 2.x sub-parser in every build.
MinorRunsIntoMajor ==
    (UnexOneGoodBlock /\ pgen.version = "1.100-0-x") =>
        /\ DecodedVersion(pgen.version) = DecodedVersion("2.0-0-x")
        /\ FoundBlocks <=> pgen.blocks[1].style # "1x"

---------------------------------------------------------------------------
(* Rows of the UNEX tables that do not parse. *)

\* A row of a "UNEX" table whose atomic number and coordinates parse.
UnexRowParses(line) ==
    /\ Len(line.toks) >= 7
    /\ ParseI32(line.toks[3]).some
    /\ \A j \in 5..7 : ParseF64(line.toks[j]).some

\* A row of a "MOL" table with at least 4 fields and a field that fails.
MolRowFails(line) ==
    /\ Len(line.toks) >= 4
    /\ \/ line.toks[1] # "X" /\ ~get_element_by_symbol(line.toks[1]).some
       \/ \E j \in 2..4 : ~ParseF64(line.toks[j]).some

\* The payload of the rows of a "UNEX" table that parse, in order.
ExpectedUnexSet(rows) ==
    LET good == SelectSeq(rows, UnexRowParses) IN
    SerCoords([k \in 1..Len(good) |-> ParseI32(good[k].toks[3]).v],
              [k \in 1..Len(good) |-> ParseF64(good[k].toks[5]).v],
              [k \in 1..Len(good) |-> ParseF64(good[k].toks[6]).v],
              [k \in 1..Len(good) |-> ParseF64(good[k].toks[7]).v])

\* The payload of the rows of a "MOL" table with at least 4 fields, in
\* order, the symbol X giving the atomic number -1.
ExpectedMolSet(rows) ==
    LET LongEnough(line) == Len(line.toks) >= 4
        good == SelectSeq(rows, LongEnough)
    IN SerCoords([k \in 1..Len(good) |->
                     IF good[k].toks[1] = "X" THEN -1
                     ELSE get_element_by_symbol(good[k].toks[1]).v],
                 [k \in 1..Len(good) |-> ParseF64(good[k].toks[2]).v],
                 [k \in 1..Len(good) |-> ParseF64(good[k].toks[3]).v],
                 [k \in 1..Len(good) |-> ParseF64(good[k].toks[4]).v])

\* The blocks of molecule n that the applied sub-parser finds, in order.
UnexFoundBlocksOf(n) ==
    LET Found(b) ==
          /\ b.name = n
          /\ IF get_format_version(pinput[1]).v < 2000000 THEN b.style = "1x"
             ELSE b.style # "1x"
    IN SelectSeq(pgen.blocks, Found)

\* The 2.x sub-parser was applied to a content with a "MOL" table that has
\* a row that fails.
MolTableFails ==
    /\ Unex2Applied
    /\ BlocksOfStyle({"2x-mol"}) > 0
    /\ \E k \in 1..Len(MolRows(pgen.rows)) : MolRowFails(MolRows(pgen.rows)[k])

\* C25: a row of a "UNEX" table (1.x, or 2.x with Format: UNEX) that does
\* not parse is dropped and the set holds the rows that parse, in order; a
\* row of a 2.x "MOL" table with at least 4 fields whose symbol is neither
\* X nor an element, or whose coordinate does not parse, makes unex::parse
\* return an error, and the symbol X gives the atomic number -1.
C25_RowFailureAsymmetry ==
    (UnexParsed /\ ~IsPanic(pout)) =>
        /\ pout.ok <=> ~MolTableFails
        /\ MolTableFails =>
              pout.e = (IF pgen.rows = "bad-number" THEN "Invalid atom symbol Zz"
                        ELSE "Invalid y coordinate")
        /\ pout.ok =>
              \A g \in 1..Len(pout.v.children) :
                 LET sets == pout.v.children[g].children
                     blocks == UnexFoundBlocksOf(pout.v.children[g].name)
                 IN  /\ Len(sets) = Len(blocks)
                     /\ \A k \in 1..Len(sets) :
                           /\ blocks[k].style \in {"1x", "2x-unex"} =>
                                 sets[k].data = ExpectedUnexSet(UnexRows(pgen.rows))
                           /\ blocks[k].style = "2x-mol" =>
                                 sets[k].data = ExpectedMolSet(MolRows(pgen.rows))

\* C25 witness: a 2.x content whose first block is a "UNEX" table with a
\* row whose coordinate does not parse; the set holds the other row alone.
C25_Witness ==
    /\ Unex2Applied /\ pout.ok
    /\ pgen.rows = "bad-coordinate"
    /\ Len(pgen.blocks) = 2
    /\ pgen.blocks[1] = [name |-> "a", style |-> "2x-unex"]
    /\ pgen.blocks[2] = [name |-> "a", style |-> "1x"]
    /\ ~UnexRowParses(UnexRows(pgen.rows)[1])
    /\ Len(UnexRows(pgen.rows)[1].toks) >= 7
    /\ pout.v.children[1].children[1].data.atomic_num = <<1>>
    /\ pout.v.children[1].children[1].data.z = <<JsonF64(FV(96))>>

\* Reached as well: a "MOL" table with the row `X 0.0 0.0 0.0` gives the
\* atomic number -1, and one with the row `Zz 0.0 0.0 0.0` an error.
MolRowXParsed ==
    /\ Unex2Applied /\ pout.ok /\ pgen.rows = "good"
    /\ Len(pgen.blocks) = 1 /\ pgen.blocks[1].style = "2x-mol"
    /\ pout.v.children[1].children[1].data.atomic_num = <<-1, 8, 1>>

MolRowRejected ==
    /\ Unex2Applied /\ pgen.rows = "bad-number"
    /\ Len(pgen.blocks) = 1 /\ pgen.blocks[1].style = "2x-mol"
    /\ pout = Err("Invalid atom symbol Zz")

---------------------------------------------------------------------------
(* The order of the lines of a cube. *)

\* The lines of the built cube after its atom lines.
CubeAfterAtoms ==
    (IF pgen.dset = "" THEN <<>> ELSE <<L(<<pgen.dset, "1">>)>>)
    \o CubeDataLines(1, pgen.ndata)

\* The error the line after the atom lines gives when the atom count is
\* negative: the line is missing, or its first field is a count other
\* than 1 ("" when there is no error, or no such line is due).
ExpectedDsetError ==
    IF ParseI32(pgen.natm).v >= 0 THEN ""
    ELSE IF CubeAfterAtoms = <<>> THEN "Unexpected end of file, expected DSET_IDS line."
    ELSE LET t == Head(CubeAfterAtoms).toks[1] IN
         IF ParseI32(t).some /\ ParseI32(t).v # 1
         THEN "Unsupported number of identifiers per voxel " \o t \o " at line "
              \o ToString(7 + Abs(ParseI32(pgen.natm).v)) \o "."
         ELSE ""

\* The values of the lines that are data when the lines are read in the
\* order comments, header, grid, atoms, DSET_IDS line, data.
RECURSIVE ValuesOf(_)
ValuesOf(lines) ==
    IF lines = <<>> THEN <<>>
    ELSE [k \in 1..Len(Head(lines).toks) |-> ParseF64(Head(lines).toks[k]).v]
         \o ValuesOf(Tail(lines))

ExpectedValues ==
    ValuesOf(IF ParseI32(pgen.natm).v < 0 THEN Tail(CubeAfterAtoms) ELSE CubeAfterAtoms)

\* The values of a 3-D array, the last index running fastest.
RECURSIVE Flatten(_)
Flatten(nested) ==
    IF nested = <<>> THEN <<>> ELSE Head(nested) \o Flatten(Tail(nested))

\* C26: cube::parse reads 2 comment lines, the header line, 3 grid lines,
\* |atom count| atom lines, one DSET_IDS line iff the atom count is
\* negative (a count of identifiers other than 1 being an error) and takes
\* all the lines after these as data; a tree it returns has exactly one
\* atomic_coordinates child, with |atom count| atoms.
C26_FixedLineOrder ==
    CubeBuiltAndParsed =>
        /\ pout.ok =>
              /\ pout.v.type = TYPE_CUBE
              /\ pout.v.data.comment1 = "cube" /\ pout.v.data.comment2 = "density"
              /\ pout.v.data.steps_number = [k \in 1..3 |-> CubeN(k)]
              /\ Len(pout.v.children) = 1
              /\ IsCoords(pout.v.children[1])
              /\ pout.v.children[1].data.atomic_num
                    = [a \in 1..Abs(ParseI32(pgen.natm).v) |-> 6]
              /\ Len(pout.v.children[1].data.x) = Abs(ParseI32(pgen.natm).v)
        /\ (pgen.nval # "2" /\ \A k \in 1..3 : CubeN(k) >= 0) =>
              IF ExpectedDsetError # "" THEN pout = Err(ExpectedDsetError)
              ELSE /\ pout.ok <=> Len(ExpectedValues) = CubePoints
                   /\ pout.ok =>
                         Flatten(Flatten(pout.v.data.cube_data)) = JsonF64s(ExpectedValues)

\* C26 witness: a cube with the atom count -2, two atom lines, a DSET_IDS
\* line and the data of its 2 x 1 x 2 grid was parsed into a tree.
C26_Witness ==
    /\ CubeBuiltAndParsed /\ pout.ok
    /\ pgen.natm = "-2" /\ pgen.dset = "1" /\ pgen.ndata = 4
    /\ pgen.n = <<"2", "1", "2">>
    /\ Len(pout.v.children) = 1
    /\ pout.v.children[1].data.atomic_num = <<6, 6>>
    /\ Flatten(Flatten(pout.v.data.cube_data)) = JsonF64s(<<FV(50), FV(100), FV(200), FV(300)>>)

\* Reached as well: with a negative atom count and no DSET_IDS line the
\* first data line is read as that line; with a positive atom count a line
\* `1 1` after the atoms is data; a DSET_IDS line `2 1` is an error.
CubeDataLineReadAsDset ==
    /\ CubeBuiltAndParsed /\ pout.ok
    /\ pgen.natm = "-1" /\ pgen.dset = "" /\ pgen.ndata = 4
    /\ Flatten(Flatten(pout.v.data.cube_data)) = JsonF64s(<<FV(200), FV(300)>>)

CubeDsetLineReadAsData ==
    /\ CubeBuiltAndParsed /\ pout.ok
    /\ pgen.natm = "1" /\ pgen.dset = "1" /\ pgen.ndata = 0
    /\ Flatten(Flatten(pout.v.data.cube_data)) = JsonF64s(<<FV(100), FV(100)>>)

CubeTwoIdentifiersRejected ==
    /\ CubeBuiltAndParsed
    /\ pgen.natm = "-1" /\ pgen.dset = "2"
    /\ pout = Err("Unsupported number of identifiers per voxel 2 at line 8.")

---------------------------------------------------------------------------
(* The shape of the cube data. *)

\* C27: a tree returned for a cube with the grid counts n1, n2, n3 >= 0
\* holds cube_data of shape n1 x n2 x n3, and cube_data[i][j][k] (counted
\* from 0) is value number (i*n2 + j)*n3 + k of the data.
C27_RowMajor ==
    (CubeBuiltAndParsed /\ pout.ok /\ \A k \in 1..3 : CubeN(k) >= 0) =>
        LET cube_data == pout.v.data.cube_data IN
        /\ Len(ExpectedValues) = CubeN(1) * CubeN(2) * CubeN(3)
        /\ Len(cube_data) = CubeN(1)
        /\ \A i \in 0..(CubeN(1) - 1) :
              /\ Len(cube_data[i + 1]) = CubeN(2)
              /\ \A j \in 0..(CubeN(2) - 1) :
                    /\ Len(cube_data[i + 1][j + 1]) = CubeN(3)
                    /\ \A k \in 0..(CubeN(3) - 1) :
                          cube_data[i + 1][j + 1][k + 1]
                             = JsonF64(ExpectedValues[(i * CubeN(2) + j) * CubeN(3) + k + 1])

\* C27 witness: a 2 x 2 x 2 cube of eight different values was parsed;
\* cube_data[1][0][1] is value number 5, which reads `8`.
C27_Witness ==
    /\ CubeBuiltAndParsed /\ pout.ok
    /\ pgen.n = <<"2", "2", "2">> /\ pgen.ndata = 8 /\ pgen.dset = ""
    /\ Cardinality({ExpectedValues[v] : v \in 1..8}) = 8
    /\ pout.v.data.cube_data[2][1][2] = JsonF64(FV(800))
    /\ pout.v.data.cube_data[1][2][1] = JsonF64(FV(200))

---------------------------------------------------------------------------
(* The coordinate sets of a Cfour log. *)

\* The Cfour parser was applied to a content.
CfourParsed == pfmt = 4 /\ pout # NoResult

\* Line i holds the marker phrase.
IsMarkerLine(lines, i) == ContainsPhrase(lines[i], CFOUR_MARKER)

\* The numbers of the marker lines of the content.
MarkerLines(lines) == {i \in 1..Len(lines) : IsMarkerLine(lines, i)}

\* Line i belongs to the block of the marker line m before it: it is one of
\* the 2 sub-header lines, or a line of the table, which ends with the
\* first line that contains "--".
InBlockOf(lines, m, i) ==
    /\ m < i
    /\ i <= m + 2 \/ \A j \in (m + 3)..(i - 1) : ~ContainsDashes(lines[j])

\* Marker line i is taken in as a line of an earlier block, whose marker
\* line was not taken in itself.
RECURSIVE Swallowed(_, _)
Swallowed(lines, i) ==
    \E m \in 1..(i - 1) :
        /\ IsMarkerLine(lines, m)
        /\ InBlockOf(lines, m, i)
        /\ ~Swallowed(lines, m)

\* The children are atomic_coordinates nodes named Set#1, Set#2, ...
NamedSetsInOrder(children) ==
    \A k \in 1..Len(children) :
        /\ children[k].name = "Set#" \o ToString(k)
        /\ IsCoords(children[k])

\* C28 (as stated): cfour::parse returns a molecule node with one
\* atomic_coordinates child per marker line of the content, in file order,
\* the i-th named Set#i.
C28_ChildPerMarkerLine ==
    CfourParsed =>
        /\ pout.ok
        /\ pout.v.type = TYPE_MOLECULE
        /\ Len(pout.v.children) = Cardinality(MarkerLines(pinput))
        /\ NamedSetsInOrder(pout.v.children)

\* C28 amended: one child per marker line that is not a line of the block
\* of an earlier marker line (its 2 sub-header lines and its table up to
\* the first line with "--"); when no marker line is inside a block, one
\* child per marker line.
C28_ChildPerBlock ==
    CfourParsed =>
        /\ pout.ok
        /\ pout.v.type = TYPE_MOLECULE
        /\ Len(pout.v.children)
              = Cardinality({i \in MarkerLines(pinput) : ~Swallowed(pinput, i)})
        /\ NamedSetsInOrder(pout.v.children)
        /\ (\A i \in MarkerLines(pinput) : ~Swallowed(pinput, i)) =>
              Len(pout.v.children) = Cardinality(MarkerLines(pinput))

\* C28 witness: a log of two blocks, each closed by a line of dashes, was
\* parsed into Set#1 and Set#2.
C28_Witness ==
    /\ CfourParsed /\ pout.ok
    /\ pgen.kind = "cfour" /\ Len(pgen.blocks) = 2
    /\ Cardinality(MarkerLines(pinput)) = 2
    /\ Len(pout.v.children) = 2
    /\ pout.v.children[2].name = "Set#2"
    /\ pout.v.children[2].data.atomic_num = <<8, -1>>

\* Reached as well: a marker line among the rows of a table, which is read
\* as a row and starts no set.
CfourMarkerReadAsRow ==
    /\ CfourParsed /\ pout.ok
    /\ Cardinality(MarkerLines(pinput)) = 2
    /\ Len(pout.v.children) = 1
    /\ pout.v.children[1].data.atomic_num = <<-1, -1>>

---------------------------------------------------------------------------
(* The Molecule payload of the root node. *)

\* A tree with at least one child was returned by the parser of a format
\* with a molecule root: XYZ, Cfour, MDL Mol V2000.
MoleculeTreeReturned(fmts) ==
    /\ pfmt \in fmts /\ pout # NoResult /\ pout.ok
    /\ pout.v.type = TYPE_MOLECULE
    /\ pout.v.children # <<>>

\* The last atomic_coordinates child of the returned tree.
LastChild == pout.v.children[Len(pout.v.children)]

\* C29 (as stated): the Molecule payload of the root returned by the XYZ,
\* Cfour and MDL Mol V2000 parsers has n_atoms equal to the length of its
\* atomic_num and to the atom count of the last child, and its atomic_num
\* is that child's.
C29_MoleculeRecordsGeometry ==
    MoleculeTreeReturned({1, 4, 5}) =>
        /\ pout.v.data.n_atoms = Len(pout.v.data.atomic_num)
        /\ pout.v.data.n_atoms = Len(LastChild.data.atomic_num)
        /\ pout.v.data.atomic_num = LastChild.data.atomic_num

\* The same for the XYZ parser alone.
XyzMoleculeRecordsGeometry ==
    MoleculeTreeReturned({1}) =>
        /\ pout.v.data.n_atoms = Len(pout.v.data.atomic_num)
        /\ pout.v.data.n_atoms = Len(LastChild.data.atomic_num)
        /\ pout.v.data.atomic_num = LastChild.data.atomic_num

\* The roots of the Cfour and MDL Mol V2000 parsers keep the payload they
\* were constructed with: no atoms.
MoleculeLeftEmpty ==
    MoleculeTreeReturned({4, 5}) =>
        pout.v.data = SerMolecule(0, <<>>, 0, load_file_name)

\* Reached: the MDL parser returned a child of two atoms under a root that
\* records none.
MdlRootWithoutAtoms ==
    /\ MoleculeTreeReturned({5})
    /\ Len(LastChild.data.atomic_num) = 2
    /\ pout.v.data.n_atoms = 0

---------------------------------------------------------------------------
(* The two parsers without an error path, and load after their           *)
(* recognizers.                                                           *)

\* The first line of the lines decodes to a version below 2_000_000.
Unex1xContent(lines) ==
    /\ lines # <<>>
    /\ get_format_version(lines[1]).some
    /\ get_format_version(lines[1]).v < 2000000

\* Some line of the lines contains the phrase.
HasLineWith(lines, phrase) ==
    \E i \in 1..Len(lines) : ContainsPhrase(lines[i], phrase)

\* This step is the recognizer of UNEX accepting a file whose first line
\* decodes to a 1.x version, or the recognizer of Cfour accepting a file.
RecognizerAccepts ==
    /\ pc = "test" /\ pc' = "parse" /\ idx \in {3, 4}
    /\ idx = 3 => Unex1xContent(ReadLines(disk, UNEX_MAX_VALIDATION_LINES).v)

\* C30 (as stated): once the recognizer of Cfour, or the recognizer of UNEX
\* on a file with a 1.x version, accepts the file, load returns success:
\* the parser that load calls next returns a tree.
C30_AcceptedMeansSuccess ==
    [][RecognizerAccepts => ParseFn(idx', content', load_file_name).ok]_vars

\* Entry k of the log is the recognizer of Cfour accepting, or the
\* recognizer of UNEX accepting while the content that load read at its
\* start has a first line that decodes to a 1.x version.
AcceptedWithContent(k) ==
    /\ log[k].op = "test" /\ log[k].out = Ok(TRUE)
    /\ \/ log[k].fmt = 4
       \/ log[k].fmt = 3 /\ Unex1xContent(content)

\* The marker phrase of the format's coordinate tables.
MarkerOf(fmt) == IF fmt = 3 THEN UNEX1_MARKER ELSE CFOUR_MARKER

\* C30 (amended): once the recognizer of Cfour accepts, or the recognizer
\* of UNEX accepts and the content read at the start of load has a 1.x
\* first line, the parser is the next and last call of load, it returns a
\* tree, load returns that tree, and the tree has no children when the
\* content has no marker line.
C30_AcceptedContentMeansSuccess ==
    \A k \in 1..Len(log) :
        AcceptedWithContent(k) =>
            /\ k = Len(log) => pc = "parse" /\ idx = log[k].fmt
            /\ k < Len(log) =>
                  /\ Len(log) = k + 1
                  /\ log[k + 1].op = "parse" /\ log[k + 1].fmt = log[k].fmt
                  /\ log[k + 1].out.ok
                  /\ pc = "done" /\ result = Ok(SerNode(log[k + 1].out.v))
                  /\ ~HasLineWith(content, MarkerOf(log[k].fmt))
                        => log[k + 1].out.v.children = <<>>

\* C30 witness: the file was replaced by a Cfour log after load had read a
\* content without a coordinate table; the recognizer of Cfour accepted,
\* the parser returned a tree without children and load returned it.
C30_Witness ==
    /\ pc = "done" /\ result.ok /\ changes > 0
    /\ Len(log) >= 2
    /\ AcceptedWithContent(Len(log) - 1) /\ log[Len(log) - 1].fmt = 4
    /\ ~HasLineWith(content, CFOUR_MARKER)
    /\ log[Len(log)].out.v.children = <<>>

\* Reached: load returned the tree of the 1.x sub-parser for an unchanged
\* UNEX 1.x file.
Unex1xLoaded ==
    /\ pc = "done" /\ result.ok /\ changes = 0
    /\ Len(log) >= 2
    /\ AcceptedWithContent(Len(log) - 1) /\ log[Len(log) - 1].fmt = 3
    /\ log[Len(log)].out.v.children # <<>>

\* Reached: the recognizer of UNEX accepted a 1.x file on disk, the UNEX
\* parser failed on the content read before the file was replaced, and
\* load went on to the next format.
Unex1xAcceptedThenFailed ==
    /\ Len(log) >= 2
    /\ log[Len(log) - 1].op = "test" /\ log[Len(log) - 1].fmt = 3
    /\ log[Len(log) - 1].out = Ok(TRUE)
    /\ log[Len(log)].op = "parse" /\ ~log[Len(log)].out.ok
    /\ Unex1xContent(disk.lines)
    /\ pc = "test" /\ idx = 4

\* For an unchanged file the statement of C30 holds as it stands.
AcceptedMeansSuccessUnchanged ==
    [][RecognizerAccepts /\ changes = 0 => ParseFn(idx', content', load_file_name).ok]_vars

\* cfour::parse and the 1.x sub-parser return a tree for every content they
\* are applied to, without children when the content has no marker line.
NoErrorPath ==
    /\ (pfmt = 4 /\ pout # NoResult) =>
          /\ pout.ok
          /\ ~HasLineWith(pinput, CFOUR_MARKER) => pout.v.children = <<>>
    /\ (pfmt = 3 /\ pout # NoResult /\ Unex1xContent(pinput)) =>
          /\ pout.ok
          /\ ~HasLineWith(pinput, UNEX1_MARKER) => pout.v.children = <<>>

\* Reached: the UNEX parser returned a tree without children for a 1.x
\* content without a marker line.
Unex1xWithoutSets ==
    /\ pfmt = 3 /\ pout # NoResult /\ Unex1xContent(pinput)
    /\ ~HasLineWith(pinput, UNEX1_MARKER) /\ pout.ok

===========================================================================
